---- MODULE Spec2Model ----
(***************************************************************************)
(* Aidra: the emergency coordinator (services/emergencyCoordinator.ts),    *)
(* the vision analysis client (services/gemini.ts), the CPR metronomes     *)
(* (CPRMetronomeCard, XRCPRModal, XRGoScreen, CprScreen), the detection    *)
(* services (poseDetection.ts, pulseDetection.ts), the XR modals'          *)
(* placement feedback, the pulse-check countdowns, AudioService and the    *)
(* voice assistant (SimpleCPRVoiceButton) and the emergency screen         *)
(* (EmergencyRun).                                                         *)
(*                                                                         *)
(* The specifications share the module's variables:                        *)
(*   Spec         the coordinator under interleaved start/process/end      *)
(*   GeminiSpec   analyzeMedicalScene applied to every bounded reply       *)
(*   ModelSpec    getModelForMode applied by successive analyses           *)
(*   MetroSpec    one metronome component driven by presses, slider        *)
(*                changes and interval firings                             *)
(*   DetectSpec   the detection services' functions applied to bounded     *)
(*                detection lists                                          *)
(*   XrSpec       an XR modal evaluating detections for its overlay        *)
(*   TimerSpec    a ten-second pulse-check countdown                       *)
(*   AudioSpec    the players of synthesised speech                        *)
(*   AudioLiveSpec  AudioSpec with every started request making progress   *)
(*   VoiceSpec    the voice assistant answering, speaking and clearing     *)
(*   FeedbackSpec the coordinator's and the assistant's speech feedback    *)
(*   ScreenSpec   the emergency screen's two analysis flows                *)
(* Numbers in [0,1] of the source are kept in hundredths (0.35 is 35).     *)
(***************************************************************************)
EXTENDS Integers, Sequences, FiniteSets, TLC

VARIABLES
    \* ---- vision analysis client (GeminiSpec)
    gMode,          \* mode passed to analyzeMedicalScene
    gReply,         \* what the remote service does with the request
    gOut,           \* the settled promise of analyzeMedicalScene, or Pending
    modelCalls,     \* the getModelForMode calls so far: mode and model returned
    \* ---- coordinator (Spec)
    currentSession, \* EmergencyCoordinatorService.currentSession
    isProcessing,   \* EmergencyCoordinatorService.isProcessing
    calls,          \* per caller: the position of its processEmergencyImage call
    outcome,        \* per caller: how its last call ended
    nextSessionId,  \* stands for the fresh sessionId string
    geminiRequests, \* vision-analysis requests issued so far
    feedbackRuns,   \* executeFeedback invocations so far
    hapticRuns,     \* executeHapticPattern invocations so far
    lastOp,         \* the coordinator operation that ran last
    \* ---- metronome (MetroSpec)
    impl,           \* which component is mounted
    metro,          \* the component's state, refs and timers
    pendingStarts,  \* CPRMetronomeCard: start() calls awaiting keep-awake
    quiet,          \* stop has returned and start was not invoked since
    mLastOp,        \* the metronome step that ran last
    \* ---- detection services (DetectSpec)
    dIn,            \* the call: which function and its arguments
    dOut,           \* the value the call returned, or NotCalled
    \* ---- placement feedback of the XR modals (XrSpec)
    xr,             \* the modal's state
    xrLog,          \* what the last handler did
    \* ---- pulse-check countdown (TimerSpec)
    timer,          \* the countdown component's state and pending timers
    tLog,           \* what the last countdown step did
    \* ---- audio playback (AudioSpec)
    audio,          \* AudioService.currentSound and the sounds now playing
    players,        \* per caller: the position of its play request
    \* ---- voice assistant (VoiceSpec)
    voice,          \* SimpleCPRVoiceButton's state and playbackCancelledRef
    runs,           \* per question: the position of its askGemini call
    \* ---- emergency screen (ScreenSpec)
    screen,         \* EmergencyRun's displayed state
    tries           \* per analysis flow: the position of its attempt

gvars == <<gMode, gReply, gOut, modelCalls>>
cvars == <<currentSession, isProcessing, calls, outcome, nextSessionId,
           geminiRequests, feedbackRuns, hapticRuns, lastOp>>
mvars == <<impl, metro, pendingStarts, quiet, mLastOp>>
dvars == <<dIn, dOut>>
xrvars == <<xr, xrLog>>
tvars == <<timer, tLog>>
avars == <<audio, players>>
vvars == <<voice, runs>>
evars == <<screen, tries>>
xvars == <<dvars, xrvars, tvars, avars, vvars, evars>>
vars == <<gvars, cvars, mvars, xvars>>

----------------------------------------------------------------------------
(* Bounds of the model *)

MaxTextLen == 4
MaxCallers == 2
MaxSessions == 3
MaxRequests == 2
MaxTimers == 3
MaxBeats == 4
MaxPending == 2
MaxDetections == 2
MaxIntervals == 2
MaxCompletions == 2
MaxSounds == 3
MaxClears == 1
MaxSelections == 4

----------------------------------------------------------------------------
(* services/gemini.ts *)

Modes == {"airway", "cpr", "pulse", "seizure"}

GEMINI_2_5_FLASH_LITE == "models/gemini-2.5-flash-8b"
GEMINI_2_5_PRO == "models/gemini-2.5-pro"

getModelForMode_AlwaysLite(mode) == GEMINI_2_5_FLASH_LITE

getModelForMode(mode) ==
    CASE mode \in {"airway", "seizure"} -> GEMINI_2_5_FLASH_LITE
      [] mode \in {"cpr", "pulse"} -> GEMINI_2_5_PRO
      [] OTHER -> GEMINI_2_5_FLASH_LITE

Det(x, y, w, h, c, label, instruction) ==
    [x |-> x, y |-> y, width |-> w, height |-> h, confidence |-> c,
     label |-> label, instruction |-> instruction]

\* A GeminiResponse as JavaScript sees it: a field may be absent (undefined).
Response(hasDet, dets, hasInstr, instr) ==
    [hasDetections |-> hasDet, detections |-> dets,
     hasInstruction |-> hasInstr, overallInstruction |-> instr]

fallbacks ==
    [airway |-> Response(TRUE,
        << Det(40, 20, 20, 15, 80, "Forehead Hand",
               "Place hand on forehead for head-tilt"),
           Det(35, 35, 20, 12, 80, "Chin Hand",
               "Support chin with fingers for chin-lift") >>,
        TRUE, "Head-tilt/chin-lift: Place one hand on forehead, other under chin"),
     cpr |-> Response(TRUE,
        << Det(40, 50, 20, 15, 80, "Hand Placement",
               "Place hands on lower half of sternum") >>,
        TRUE, "CPR: Place hands on center of chest, lower half of sternum"),
     pulse |-> Response(TRUE,
        << Det(20, 30, 15, 12, 80, "Carotid Pulse",
               "Place fingers on carotid pulse (neck)"),
           Det(15, 60, 12, 10, 80, "Radial Pulse",
               "Feel radial pulse (wrist)") >>,
        TRUE, "Pulse Check: Try carotid (neck) or radial (wrist) pulse"),
     seizure |-> Response(TRUE,
        << Det(40, 25, 20, 15, 80, "Head Protection",
               "Protect and cushion head area"),
           Det(30, 60, 40, 20, 80, "Body Support",
               "Support body in safe position") >>,
        TRUE, "Seizure Safety: Protect head, support body, clear area")]

getFallbackResponse(mode) ==
    IF mode \in DOMAIN fallbacks THEN fallbacks[mode] ELSE fallbacks.airway

\* The reply text, token by token: braces, a comma, the members
\* "detections":[one detection] (D), "detections":[] (E),
\* "overallInstruction":"..." (I), and any other prose (x).
Tokens == {"{", "}", ",", "D", "E", "I", "x"}
Texts == UNION {[1..n -> Tokens] : n \in 0..MaxTextLen}

ModelDetection == Det(50, 45, 20, 15, 90, "Chest", "Place here")
ModelInstruction == "Brief guidance"

\* text.match(/\{[\s\S]*\}/): from the first "{" to the last "}" after it.
jsonMatch(text) ==
    LET opens == {i \in 1..Len(text) : text[i] = "{"}
        closes == {j \in 1..Len(text) : text[j] = "}"}
    IN IF opens = {} THEN [found |-> FALSE, span |-> <<>>]
       ELSE LET first == CHOOSE i \in opens : \A k \in opens : i <= k
                after == {j \in closes : j > first}
            IN IF after = {} THEN [found |-> FALSE, span |-> <<>>]
               ELSE LET last == CHOOSE j \in after : \A k \in after : k <= j
                    IN [found |-> TRUE, span |-> SubSeq(text, first, last)]

\* JSON.parse of a matched span: an object is "{" members "}" with the members
\* separated by commas; anything else is a SyntaxError. A repeated key keeps
\* its last value.
IsMember(t) == t \in {"D", "E", "I"}

JSONparse(span) ==
    LET n == Len(span)
        inner == SubSeq(span, 2, n - 1)
        k == Len(inner)
        wellFormed ==
            /\ n >= 2 /\ span[1] = "{" /\ span[n] = "}"
            /\ \/ k = 0
               \/ /\ k % 2 = 1
                  /\ \A i \in 1..k : IF i % 2 = 1 THEN IsMember(inner[i])
                                     ELSE inner[i] = ","
        detIdx == {i \in 1..k : inner[i] \in {"D", "E"}}
        lastDet == CHOOSE i \in detIdx : \A j \in detIdx : j <= i
        hasDet == detIdx # {}
        hasInstr == \E i \in 1..k : inner[i] = "I"
    IN IF ~wellFormed THEN [ok |-> FALSE, value |-> Response(FALSE, <<>>, FALSE, "")]
       ELSE [ok |-> TRUE,
             value |-> Response(hasDet,
                                IF hasDet /\ inner[lastDet] = "D"
                                THEN <<ModelDetection>> ELSE <<>>,
                                hasInstr,
                                IF hasInstr THEN ModelInstruction ELSE "")]

FinishReasons == {"STOP", "SAFETY", "MAX_TOKENS", "OTHER"}

\* What the remote service does: fetch rejects; a non-OK status (whose body may
\* fail to read); a body that is not JSON; or data with a finish reason and a text
\* (the empty text stands for a candidate without text).
MkReply(kind, textThrows, finishReason, text) ==
    [kind |-> kind, textThrows |-> textThrows, finishReason |-> finishReason,
     text |-> text]
Replies ==
    {MkReply("networkError", FALSE, "STOP", <<>>)}
    \cup {MkReply("httpError", b, "STOP", <<>>) : b \in BOOLEAN}
    \cup {MkReply("jsonThrows", FALSE, "STOP", <<>>)}
    \cup {MkReply("data", FALSE, f, t) : f \in FinishReasons, t \in Texts}

NoResponse == Response(FALSE, <<>>, FALSE, "")

\* A settled call: it returned a value or it threw.
Returned(v) == [settled |-> TRUE, threw |-> FALSE, error |-> "", value |-> v]
Threw(e) == [settled |-> TRUE, threw |-> TRUE, error |-> e, value |-> NoResponse]
Pending == [settled |-> FALSE, threw |-> FALSE, error |-> "", value |-> NoResponse]

\* The body of parseGeminiResponse's try block.
parseGeminiResponseTry(data, mode) ==
    IF data.text = <<>>
    THEN IF data.finishReason = "SAFETY" THEN Returned(getFallbackResponse(mode))
         ELSE IF data.finishReason = "MAX_TOKENS"
              THEN Returned(getFallbackResponse(mode))
              ELSE Threw("No response text from Gemini")
    ELSE LET m == jsonMatch(data.text)
         IN IF ~m.found THEN Returned(getFallbackResponse(mode))
            ELSE LET p == JSONparse(m.span)
                 IN IF p.ok THEN Returned(p.value) ELSE Threw("SyntaxError")

parseGeminiResponse(data, mode) ==
    LET r == parseGeminiResponseTry(data, mode)
    IN IF r.threw THEN Returned(getFallbackResponse(mode)) ELSE r

\* The body of analyzeMedicalScene's try block.
analyzeMedicalSceneTry(reply, mode) ==
    CASE reply.kind = "networkError" -> Threw("fetch failed")
      [] reply.kind = "httpError" ->
            IF reply.textThrows THEN Threw("body read failed")
            ELSE Returned(getFallbackResponse(mode))
      [] reply.kind = "jsonThrows" -> Threw("SyntaxError")
      [] OTHER -> parseGeminiResponse(reply, mode)

analyzeMedicalScene_NoCatch(reply, mode) ==
    analyzeMedicalSceneTry(reply, mode)

analyzeMedicalScene(reply, mode) ==
    LET model == getModelForMode(mode)
        r == analyzeMedicalSceneTry(reply, mode)
    IN IF r.threw THEN Returned(getFallbackResponse(mode)) ELSE r

GInit ==
    /\ gMode \in Modes
    /\ gReply \in Replies
    /\ gOut = Pending
    /\ modelCalls = <<>>

GIdle ==
    /\ gMode = "cpr"
    /\ gReply = MkReply("networkError", FALSE, "STOP", <<>>)
    /\ gOut = Pending
    /\ modelCalls = <<>>

\* const modelName = this.getModelForMode(mode)
selectModel(calls_, mode) ==
    Append(calls_, [mode |-> mode, modelName |-> getModelForMode(mode)])

Analyze ==
    /\ gOut = Pending
    /\ gOut' = analyzeMedicalScene(gReply, gMode)
    /\ modelCalls' = selectModel(modelCalls, gMode)
    /\ UNCHANGED <<gMode, gReply, cvars, mvars, xvars>>

\* one more analysis picks its model: the head of analyzeMedicalScene, before
\* the request is built
SelectModel(mode) ==
    /\ Len(modelCalls) < MaxSelections
    /\ modelCalls' = selectModel(modelCalls, mode)
    /\ UNCHANGED <<gMode, gReply, gOut, cvars, mvars, xvars>>

----------------------------------------------------------------------------
(* services/emergencyCoordinator.ts *)

Callers == 1..MaxCallers

NoGuidance ==
    [primaryDefined |-> FALSE, primary |-> "", secondary |-> "",
     urgency |-> "", hasPosition |-> FALSE, positionX |-> 0, positionY |-> 0,
     speak |-> <<>>, tone |-> "", hapticType |-> "", pattern |-> <<>>]

\* The session slot holding null.
NoSession ==
    [sessionId |-> 0, mode |-> "", isActive |-> FALSE,
     hasAnalysis |-> FALSE, lastAnalysis |-> NoResponse,
     hasGuidance |-> FALSE, lastGuidance |-> NoGuidance]

\* The session object startEmergencySession allocates.
NewSession(id, mode) ==
    [sessionId |-> id, mode |-> mode, isActive |-> TRUE,
     hasAnalysis |-> FALSE, lastAnalysis |-> NoResponse,
     hasGuidance |-> FALSE, lastGuidance |-> NoGuidance]

\* The slot after startEmergencySession(mode): the code assigns
\* this.currentSession without looking at what the slot holds.
startEmergencySession(slot, id, mode) == NewSession(id, mode)

\* The guard of processEmergencyImage: TRUE when the call is rejected.
processGuard_IgnoresProcessing(slot, processing) == slot = NoSession

processGuard(slot, processing) == slot = NoSession \/ processing

\* The voice text: overallInstruction || `Continue with ${mode} procedure. ...`
\* (an absent or empty instruction is falsy).
voiceGuidanceText_NoGeneric(analysis, mode) == <<analysis.overallInstruction>>

voiceGuidanceText(analysis, mode) ==
    IF analysis.hasInstruction /\ analysis.overallInstruction # ""
    THEN <<analysis.overallInstruction>>
    ELSE <<"Continue with ", mode,
           " procedure. Stay calm and follow proper technique.">>

\* The DispatcherResponse literal of processEmergencyImage (analysis.detections
\* is present here: reading .length of an absent one throws before this).
synthesizeResponse(analysis, mode) ==
    LET has == Len(analysis.detections) > 0
    IN [primaryDefined |-> analysis.hasInstruction,
        primary |-> analysis.overallInstruction,
        secondary |-> "Continue monitoring the situation",
        urgency |-> "medium",
        hasPosition |-> has,
        positionX |-> IF has THEN analysis.detections[1].x ELSE 0,
        positionY |-> IF has THEN analysis.detections[1].y ELSE 0,
        speak |-> voiceGuidanceText(analysis, mode),
        tone |-> "calm",
        hapticType |-> "medium",
        pattern |-> <<200, 100, 200>>]

\* The finally block of processEmergencyImage, on the session slot.
finallyCleanup_Keeps(slot) == slot

finallyCleanup(slot) ==
    IF slot # NoSession /\ ~slot.isActive THEN NoSession ELSE slot

\* endEmergencySession, on the session slot.
endEmergencySession_Immediate(slot, processing) == NoSession

endEmergencySession(slot, processing) ==
    IF slot # NoSession
    THEN IF processing THEN [slot EXCEPT !.isActive = FALSE] ELSE NoSession
    ELSE NoSession

IdleCall == [pc |-> "idle", mode |-> "", sid |-> 0, analysis |-> NoResponse]

\* The replies the coordinator's vision request can get: a transport failure
\* (fallback table), an object without detections, an object with an empty
\* detections list and no instruction, and a full object.
CoordReplies ==
    {MkReply("networkError", FALSE, "STOP", <<>>),
     MkReply("data", FALSE, "STOP", <<"{", "I", "}">>),
     MkReply("data", FALSE, "STOP", <<"{", "E", "}">>),
     MkReply("data", FALSE, "STOP", <<"x", "{", "D", ",", "I", "}">>)}

CInit ==
    /\ currentSession = NoSession
    /\ isProcessing = FALSE
    /\ calls = [c \in Callers |-> IdleCall]
    /\ outcome = [c \in Callers |-> "none"]
    /\ nextSessionId = 1
    /\ geminiRequests = 0
    /\ feedbackRuns = 0
    /\ hapticRuns = 0
    /\ lastOp = "init"

StartSession(mode) ==
    /\ nextSessionId <= MaxSessions
    /\ currentSession' = startEmergencySession(currentSession, nextSessionId, mode)
    /\ nextSessionId' = nextSessionId + 1
    /\ lastOp' = "start"
    /\ UNCHANGED <<isProcessing, calls, outcome, geminiRequests, feedbackRuns,
                   hapticRuns, gvars, mvars, xvars>>

\* processEmergencyImage up to its first await: the guard, isProcessing = true,
\* and the vision request for the session's mode.
ProcessBegin(c) ==
    /\ calls[c].pc = "idle"
    /\ IF processGuard(currentSession, isProcessing)
       THEN /\ outcome' = [outcome EXCEPT ![c] = "rejected"]
            /\ lastOp' = "reject"
            /\ UNCHANGED <<isProcessing, calls, geminiRequests>>
       ELSE /\ geminiRequests < MaxRequests
            /\ isProcessing' = TRUE
            /\ geminiRequests' = geminiRequests + 1
            /\ calls' = [calls EXCEPT ![c] =
                   [pc |-> "gemini", mode |-> currentSession.mode,
                    sid |-> currentSession.sessionId, analysis |-> NoResponse]]
            /\ outcome' = [outcome EXCEPT ![c] = "inflight"]
            /\ lastOp' = "begin"
    /\ UNCHANGED <<currentSession, nextSessionId, feedbackRuns, hapticRuns,
                   gvars, mvars, xvars>>

\* The call's catch/finally: the error is rethrown, isProcessing is cleared and
\* an inactive session is cleaned up.
Fail(c, error) ==
    /\ outcome' = [outcome EXCEPT ![c] = error]
    /\ calls' = [calls EXCEPT ![c] = IdleCall]
    /\ isProcessing' = FALSE
    /\ currentSession' = finallyCleanup(currentSession)
    /\ lastOp' = "failed"
    /\ UNCHANGED <<feedbackRuns, hapticRuns>>

\* The vision request settles; the call runs to its next await (executeFeedback).
GeminiReturn(c, reply) ==
    /\ calls[c].pc = "gemini"
    /\ LET analysis == analyzeMedicalScene(reply, calls[c].mode).value
       IN IF currentSession = NoSession
          THEN Fail(c, "Emergency session ended during processing")
          ELSE IF ~analysis.hasDetections
          THEN Fail(c, "TypeError")
          ELSE /\ currentSession' =
                    [currentSession EXCEPT
                       !.hasAnalysis = TRUE, !.lastAnalysis = analysis,
                       !.hasGuidance = TRUE,
                       !.lastGuidance =
                           synthesizeResponse(analysis, currentSession.mode)]
               /\ calls' = [calls EXCEPT ![c].pc = "feedback",
                                         ![c].analysis = analysis]
               /\ feedbackRuns' = feedbackRuns + 1
               /\ lastOp' = "analysed"
               /\ UNCHANGED <<isProcessing, outcome, hapticRuns>>
    /\ UNCHANGED <<nextSessionId, geminiRequests, gvars, mvars, xvars>>

\* executeFeedback with the speech succeeding or failing: the inner catch
\* swallows the speech error, the haptic pattern runs, nothing is thrown (in
\* the mutant the speech error escapes)
executeFeedback_Rethrows(ttsOk) ==
    [haptics |-> IF ttsOk THEN 1 ELSE 0, threw |-> ~ttsOk]
executeFeedback(ttsOk) == [haptics |-> 1, threw |-> FALSE]

\* executeFeedback settles, the result is returned and the finally block runs.
FeedbackDone(c, ttsOk) ==
    /\ calls[c].pc = "feedback"
    /\ LET fb == executeFeedback(ttsOk)
       IN IF fb.threw
          THEN Fail(c, "Feedback error")
          ELSE /\ hapticRuns' = hapticRuns + fb.haptics
               /\ outcome' = [outcome EXCEPT ![c] = "returned"]
               /\ calls' = [calls EXCEPT ![c] = IdleCall]
               /\ isProcessing' = FALSE
               /\ currentSession' = finallyCleanup(currentSession)
               /\ lastOp' = "returned"
               /\ UNCHANGED feedbackRuns
    /\ UNCHANGED <<nextSessionId, geminiRequests, gvars, mvars, xvars>>

EndSession ==
    /\ currentSession' = endEmergencySession(currentSession, isProcessing)
    /\ lastOp' = "end"
    /\ UNCHANGED <<isProcessing, calls, outcome, nextSessionId, geminiRequests,
                   feedbackRuns, hapticRuns, gvars, mvars, xvars>>

Next ==
    \/ \E mode \in Modes : StartSession(mode)
    \/ \E c \in Callers : ProcessBegin(c)
    \/ \E c \in Callers, reply \in CoordReplies : GeminiReturn(c, reply)
    \/ \E c \in Callers, ttsOk \in BOOLEAN : FeedbackDone(c, ttsOk)
    \/ EndSession

----------------------------------------------------------------------------
(* The CPR metronomes.  A handler sees `running` and `bpm` as its render's     *)
(* closure captured them (the parameters r and b); setRunning and setBpm       *)
(* write the next render's state (the record's fields).  An action is a        *)
(* handler followed by the renders and effects it causes.                      *)

Impls == {"Card", "XRModal", "XRGo", "Cpr"}

DEFAULT_BPM == 110
MinBpm == 100
MaxBpm == 120
BpmValues == {MinBpm, DEFAULT_BPM, MaxBpm}

\* Math.max(100, Math.min(120, bpm))
clampRate(b) ==
    LET lo == IF b < MaxBpm THEN b ELSE MaxBpm
    IN IF lo > MinBpm THEN lo ELSE MinBpm

\* 60000 / rate, in whole milliseconds
periodMs(rate) == 60000 \div rate

\* setInterval(tickOnce, ms): a new active interval; its handle is nextTimer.
setInterval(m, ms) ==
    [m EXCEPT !.timers = @ \cup {[id |-> m.nextTimer, ms |-> ms]},
              !.nextTimer = @ + 1]

\* clearInterval(handle)
clearInterval(m, handle) ==
    [m EXCEPT !.timers = {t \in @ : t.id # handle}]

\* XRCPRModal tickOnce: one beat.
tickOnce(m) ==
    [m EXCEPT !.beatCount = @ + 1,
              !.fired = @ + 1,
              !.speaking = ((m.beatCount + 1) % 2 = 0)]

\* CPRMetronomeCard tickOnce: one beat, shown in displayBeat.
Card_tickOnce(m) ==
    [tickOnce(m) EXCEPT !.displayBeat = m.beatCount + 1]

\* XRGoScreen tickOnce
XRGo_tickOnce(m) == tickOnce(m)

\* CprScreen loopOnce
Cpr_loopOnce(m) == tickOnce(m)

\* XRCPRModal stopCpr
XRModal_stopCpr(m) ==
    [(IF m.tickRef # 0 THEN clearInterval(m, m.tickRef) ELSE m)
        EXCEPT !.tickRef = 0, !.running = FALSE, !.speaking = FALSE]

\* XRGoScreen stopCpr
XRGo_stopCpr(m) ==
    [(IF m.tickRef # 0 THEN clearInterval(m, m.tickRef) ELSE m)
        EXCEPT !.tickRef = 0, !.running = FALSE, !.speaking = FALSE]

\* CprScreen stop
Cpr_stop(m) ==
    [(IF m.tickRef # 0 THEN clearInterval(m, m.tickRef) ELSE m)
        EXCEPT !.tickRef = 0, !.running = FALSE, !.speaking = FALSE]

\* CPRMetronomeCard stop
Card_stop(m) ==
    [(IF m.tickRef # 0 THEN clearInterval(m, m.tickRef) ELSE m)
        EXCEPT !.tickRef = 0, !.running = FALSE, !.displayBeat = 0,
               !.speaking = FALSE, !.keepAwake = FALSE]

\* XRCPRModal startCpr, with the running and bpm of its closure
XRModal_startCpr(m, r, b) ==
    IF r THEN m
    ELSE LET m1 == [m EXCEPT !.running = TRUE, !.beatCount = 0, !.fired = 0]
             ms == periodMs(clampRate(b))
             m2 == tickOnce(m1)
         IN [setInterval(m2, ms) EXCEPT !.tickRef = m2.nextTimer]

\* XRGoScreen startCpr
XRGo_startCpr(m, r, b) ==
    IF r THEN m
    ELSE LET m1 == [m EXCEPT !.running = TRUE, !.beatCount = 0, !.fired = 0]
             ms == periodMs(clampRate(b))
             m2 == XRGo_tickOnce(m1)
         IN [setInterval(m2, ms) EXCEPT !.tickRef = m2.nextTimer]

\* CprScreen start (the period is 60000 / bpm, unclamped)
Cpr_start(m, r, b) ==
    IF r THEN m
    ELSE LET m1 == [m EXCEPT !.running = TRUE, !.beatCount = 0, !.fired = 0]
             ms == periodMs(b)
             m2 == Cpr_loopOnce(m1)
         IN [setInterval(m2, ms) EXCEPT !.tickRef = m2.nextTimer]

\* CPRMetronomeCard start up to its await: TRUE when the call goes on to
\* await activateKeepAwakeAsync.
Card_startProceeds(r, forceRestart) == ~(r /\ ~forceRestart)

\* CPRMetronomeCard start after the await, with the bpm of its closure
Card_startResume(m, b) ==
    LET m1 == [m EXCEPT !.keepAwake = TRUE, !.running = TRUE, !.beatCount = 0,
                        !.fired = 0, !.displayBeat = 0]
        ms == periodMs(clampRate(b))
        m2 == Card_tickOnce(m1)
    IN [setInterval(m2, ms) EXCEPT !.tickRef = m2.nextTimer]

\* XRCPRModal re-time effect, deps [bpm, running, stopCpr, startCpr]
XRModal_retimeEffect(m, r, b) ==
    IF r THEN XRModal_startCpr(XRModal_stopCpr(m), r, b) ELSE m

\* The renders that follow a handler of XRCPRModal: the effect runs again
\* whenever running or bpm differ from the previous render's.
RECURSIVE XRModal_settle(_, _, _)
XRModal_settle(m, rPrev, bPrev) ==
    IF m.running = rPrev /\ m.bpm = bPrev THEN m
    ELSE XRModal_settle(XRModal_retimeEffect(m, m.running, m.bpm),
                        m.running, m.bpm)

\* XRGoScreen effect, deps [bpm]
XRGo_retimeEffect(m, r, b) ==
    IF r THEN XRGo_startCpr(XRGo_stopCpr(m), r, b) ELSE m

\* CprScreen effect, deps [bpm]
Cpr_retimeEffect(m, r, b) ==
    IF ~r THEN m ELSE Cpr_start(Cpr_stop(m), r, b)

\* CPRMetronomeCard effect, deps [bpm]: runningRef.current is the rendered
\* running; start(true) is left awaiting.
Card_retimeStops(m, r) == IF r THEN Card_stop(m) ELSE m

InitialMetro ==
    [bpm |-> DEFAULT_BPM, running |-> FALSE, tickRef |-> 0, beatCount |-> 0,
     displayBeat |-> 0, timers |-> {}, nextTimer |-> 1, speaking |-> FALSE,
     keepAwake |-> FALSE, fired |-> 0]

MInit ==
    /\ impl \in Impls
    /\ metro = InitialMetro
    /\ pendingStarts = <<>>
    /\ quiet = FALSE
    /\ mLastOp = "init"

MIdle ==
    /\ impl = "Card"
    /\ metro = InitialMetro
    /\ pendingStarts = <<>>
    /\ quiet = FALSE
    /\ mLastOp = "init"

StopOp == IF mLastOp \in {"stop", "stopAgain"} THEN "stopAgain" ELSE "stop"

\* The Start button (shown while the rendered running is false).
PressStart ==
    /\ ~metro.running
    /\ quiet' = FALSE
    /\ mLastOp' = "pressStart"
    /\ CASE impl = "Card" ->
              /\ Len(pendingStarts) < MaxPending
              /\ Card_startProceeds(metro.running, TRUE)
              /\ pendingStarts' = Append(pendingStarts, metro.bpm)
              /\ UNCHANGED metro
         [] impl = "XRModal" ->
              /\ metro.nextTimer <= MaxTimers
              /\ metro' = XRModal_settle(
                              XRModal_startCpr(metro, metro.running, metro.bpm),
                              metro.running, metro.bpm)
              /\ UNCHANGED pendingStarts
         [] impl = "XRGo" ->
              /\ metro.nextTimer <= MaxTimers
              /\ metro' = XRGo_startCpr(metro, metro.running, metro.bpm)
              /\ UNCHANGED pendingStarts
         [] OTHER ->
              /\ metro.nextTimer <= MaxTimers
              /\ metro' = Cpr_start(metro, metro.running, metro.bpm)
              /\ UNCHANGED pendingStarts
    /\ UNCHANGED <<impl, gvars, cvars, xvars>>

\* CPRMetronomeCard: activateKeepAwakeAsync settles for the i-th awaiting start.
Resume(i) ==
    /\ impl = "Card"
    /\ i \in 1..Len(pendingStarts)
    /\ metro.nextTimer <= MaxTimers
    /\ metro' = Card_startResume(metro, pendingStarts[i])
    /\ pendingStarts' = [j \in 1..(Len(pendingStarts) - 1) |->
                            IF j < i THEN pendingStarts[j]
                            ELSE pendingStarts[j + 1]]
    /\ mLastOp' = "resume"
    /\ UNCHANGED <<impl, quiet, gvars, cvars, xvars>>

StopHandler(m) ==
    CASE impl = "Card" -> Card_stop(m)
      [] impl = "XRModal" ->
            XRModal_settle(XRModal_stopCpr(m), m.running, m.bpm)
      [] impl = "XRGo" -> XRGo_stopCpr(m)
      [] OTHER -> Cpr_stop(m)

\* The Stop button (shown while the rendered running is true).
PressStop ==
    /\ metro.running
    /\ metro' = StopHandler(metro)
    /\ quiet' = TRUE
    /\ mLastOp' = StopOp
    /\ UNCHANGED <<impl, pendingStarts, gvars, cvars, xvars>>

\* stopCpr called whatever the state: XRCPRModal when the modal closes,
\* XRGoScreen when the mode is switched to pulse.
ExternalStop ==
    /\ impl \in {"XRModal", "XRGo"}
    /\ metro' = StopHandler(metro)
    /\ quiet' = TRUE
    /\ mLastOp' = StopOp
    /\ UNCHANGED <<impl, pendingStarts, gvars, cvars, xvars>>

\* The slider: setBpm(v), the render and the re-time effect.
ChangeBpm(v) ==
    /\ v # metro.bpm
    /\ LET m1 == [metro EXCEPT !.bpm = v]
           r == metro.running
       IN CASE impl = "Card" ->
                 /\ r => Len(pendingStarts) < MaxPending
                 /\ metro' = Card_retimeStops(m1, r)
                 /\ pendingStarts' =
                       IF r /\ Card_startProceeds(r, TRUE)
                       THEN Append(pendingStarts, v) ELSE pendingStarts
            [] impl = "XRModal" ->
                 /\ metro' = XRModal_settle(m1, metro.running, metro.bpm)
                 /\ UNCHANGED pendingStarts
            [] impl = "XRGo" ->
                 /\ metro' = XRGo_retimeEffect(m1, r, v)
                 /\ UNCHANGED pendingStarts
            [] OTHER ->
                 /\ metro' = Cpr_retimeEffect(m1, r, v)
                 /\ UNCHANGED pendingStarts
    /\ quiet' = IF metro.running THEN FALSE ELSE quiet
    /\ mLastOp' = "changeBpm"
    /\ UNCHANGED <<impl, gvars, cvars, xvars>>

TickHandler(m) ==
    CASE impl = "Card" -> Card_tickOnce(m)
      [] impl = "XRModal" -> tickOnce(m)
      [] impl = "XRGo" -> XRGo_tickOnce(m)
      [] OTHER -> Cpr_loopOnce(m)

\* An active interval fires.
Tick(h) ==
    /\ h \in {t.id : t \in metro.timers}
    /\ metro.beatCount < MaxBeats
    /\ metro' = TickHandler(metro)
    /\ mLastOp' = "tick"
    /\ UNCHANGED <<impl, pendingStarts, quiet, gvars, cvars, xvars>>

MetroNext ==
    \/ PressStart
    \/ \E i \in 1..MaxPending : Resume(i)
    \/ PressStop
    \/ ExternalStop
    \/ \E v \in BpmValues : ChangeBpm(v)
    \/ \E h \in 1..MaxTimers : Tick(h)

----------------------------------------------------------------------------
(* services/poseDetection.ts and services/pulseDetection.ts               *)
(*                                                                         *)
(* Every x and y is kept in hundredths, a normalized coordinate as well as *)
(* a pixel coordinate (130 pixels is 13000), image sizes are whole pixels, *)
(* so target.x * imageWidth is again in hundredths. Distances are compared *)
(* by their squares (Math.sqrt is monotonic and exact on the squares the   *)
(* boundary cases produce).                                                *)

NoPoint == [present |-> FALSE, x |-> 0, y |-> 0]
Pt(x, y) == [present |-> TRUE, x |-> x, y |-> y]

NoTarget == [present |-> FALSE, x |-> 0, y |-> 0, confidence |-> 0,
             position |-> ""]
Target(x, y, c, position) ==
    [present |-> TRUE, x |-> x, y |-> y, confidence |-> c,
     position |-> position]

Infinity == -1

\* Math.pow(p.x - targetPixels.x, 2) + Math.pow(p.y - targetPixels.y, 2)
distanceSq(p, target, imageWidth, imageHeight) ==
    (p.x - target.x * imageWidth) * (p.x - target.x * imageWidth)
    + (p.y - target.y * imageHeight) * (p.y - target.y * imageHeight)

MathMin(a, b) == IF a = Infinity THEN b ELSE IF b = Infinity THEN a
                 ELSE IF a <= b THEN a ELSE b

\* the loop over left and right: <<hasHands, minDistance squared>>
minDistanceSq(target, positions, imageWidth, imageHeight) ==
    LET afterLeft ==
            IF positions.left.present
            THEN MathMin(Infinity, distanceSq(positions.left, target,
                                              imageWidth, imageHeight))
            ELSE Infinity
        afterRight ==
            IF positions.right.present
            THEN MathMin(afterLeft, distanceSq(positions.right, target,
                                               imageWidth, imageHeight))
            ELSE afterLeft
    IN <<positions.left.present \/ positions.right.present, afterRight>>

HandThreshold == 50
FingerThreshold == 30

\* minDistance <= limit, limit in hundredths of a pixel
Within(dSq, limit100) == dSq <= limit100 * limit100

calculateHandPlacementAccuracy_Exclusive(target, handPositions, imageWidth, imageHeight) ==
    LET m == minDistanceSq(target, handPositions, imageWidth, imageHeight)
    IN IF ~m[1] THEN "incorrect"
       ELSE IF m[2] < (HandThreshold * 100) * (HandThreshold * 100) THEN "correct"
       ELSE IF Within(m[2], HandThreshold * 200) THEN "adjust"
       ELSE "incorrect"

calculateHandPlacementAccuracy(target, handPositions, imageWidth, imageHeight) ==
    LET m == minDistanceSq(target, handPositions, imageWidth, imageHeight)
    IN IF ~m[1] THEN "incorrect"
       ELSE IF Within(m[2], HandThreshold * 100) THEN "correct"
       ELSE IF Within(m[2], HandThreshold * 200) THEN "adjust"
       ELSE "incorrect"

calculateFingerPlacementAccuracy_LastWins(target, fingerPositions, imageWidth, imageHeight) ==
    LET d == IF fingerPositions.right.present
             THEN distanceSq(fingerPositions.right, target, imageWidth, imageHeight)
             ELSE distanceSq(fingerPositions.left, target, imageWidth, imageHeight)
    IN IF ~(fingerPositions.left.present \/ fingerPositions.right.present)
       THEN "incorrect"
       ELSE IF Within(d, FingerThreshold * 100) THEN "correct"
       ELSE IF Within(d, FingerThreshold * 150) THEN "adjust"
       ELSE "incorrect"

calculateFingerPlacementAccuracy(target, fingerPositions, imageWidth, imageHeight) ==
    LET m == minDistanceSq(target, fingerPositions, imageWidth, imageHeight)
    IN IF ~m[1] THEN "incorrect"
       ELSE IF Within(m[2], FingerThreshold * 100) THEN "correct"
       ELSE IF Within(m[2], FingerThreshold * 150) THEN "adjust"
       ELSE "incorrect"

\* Labels and keywords are sequences of characters, so that toLowerCase
\* and includes are computed as String.prototype does.

UpperCase == <<"A", "B", "C", "D", "E", "F", "G", "H", "I", "J", "K", "L", "M",
               "N", "O", "P", "Q", "R", "S", "T", "U", "V", "W", "X", "Y", "Z">>
LowerCase == <<"a", "b", "c", "d", "e", "f", "g", "h", "i", "j", "k", "l", "m",
               "n", "o", "p", "q", "r", "s", "t", "u", "v", "w", "x", "y", "z">>

toLowerCaseChar(ch) ==
    IF \E i \in 1..Len(UpperCase) : UpperCase[i] = ch
    THEN LowerCase[CHOOSE i \in 1..Len(UpperCase) : UpperCase[i] = ch]
    ELSE ch

toLowerCase(s) == [i \in 1..Len(s) |-> toLowerCaseChar(s[i])]

includes(s, k) ==
    \E i \in 1..(Len(s) - Len(k) + 1) : SubSeq(s, i, i + Len(k) - 1) = k

\* the keywords the services search labels for
kw ==
    [ chest |-> <<"c", "h", "e", "s", "t">>,
      sternum |-> <<"s", "t", "e", "r", "n", "u", "m">>,
      hand |-> <<"h", "a", "n", "d">>,
      body |-> <<"b", "o", "d", "y">>,
      person |-> <<"p", "e", "r", "s", "o", "n">>,
      wrist |-> <<"w", "r", "i", "s", "t">>,
      finger |-> <<"f", "i", "n", "g", "e", "r">>,
      carotid |-> <<"c", "a", "r", "o", "t", "i", "d">>,
      neck |-> <<"n", "e", "c", "k">>,
      pulse |-> <<"p", "u", "l", "s", "e">>,
      brachial |-> <<"b", "r", "a", "c", "h", "i", "a", "l">>,
      upper_arm |-> <<"u", "p", "p", "e", "r", " ", "a", "r", "m">>,
      arm |-> <<"a", "r", "m">>,
      radial |-> <<"r", "a", "d", "i", "a", "l">>,
      child |-> <<"c", "h", "i", "l", "d">>,
      infant |-> <<"i", "n", "f", "a", "n", "t">>,
      small |-> <<"s", "m", "a", "l", "l">>,
      adult |-> <<"a", "d", "u", "l", "t">>,
      large |-> <<"l", "a", "r", "g", "e">>,
      sitting |-> <<"s", "i", "t", "t", "i", "n", "g">>,
      conscious |-> <<"c", "o", "n", "s", "c", "i", "o", "u", "s">>,
      awake |-> <<"a", "w", "a", "k", "e">> ]

Keywords ==
    {kw.chest, kw.sternum, kw.hand, kw.body, kw.person,
     kw.wrist, kw.finger, kw.carotid, kw.neck, kw.pulse,
     kw.brachial, kw.upper_arm, kw.arm, kw.radial, kw.child,
     kw.infant, kw.small, kw.adult, kw.large, kw.sitting,
     kw.conscious, kw.awake}

\* labels a vision reply can carry
lbl ==
    [ Chest |-> <<"C", "h", "e", "s", "t">>,
      STERNUM |-> <<"S", "T", "E", "R", "N", "U", "M">>,
      Hand_Placement |->
          <<"H", "a", "n", "d", " ", "P", "l", "a", "c", "e", "m", "e", "n", "t">>,
      Person |-> <<"P", "e", "r", "s", "o", "n">>,
      Head |-> <<"H", "e", "a", "d">>,
      body |-> <<"b", "o", "d", "y">>,
      Carotid_artery |->
          <<"C", "a", "r", "o", "t", "i", "d", " ", "a", "r", "t", "e", "r", "y">>,
      Neck |-> <<"N", "e", "c", "k">>,
      Pulse_point |->
          <<"P", "u", "l", "s", "e", " ", "p", "o", "i", "n", "t">>,
      Upper_Arm |-> <<"U", "p", "p", "e", "r", " ", "A", "r", "m">>,
      Forearm |-> <<"F", "o", "r", "e", "a", "r", "m">>,
      Wrist |-> <<"W", "r", "i", "s", "t">>,
      Face |-> <<"F", "a", "c", "e">>,
      Infant |-> <<"I", "n", "f", "a", "n", "t">>,
      Sitting |-> <<"S", "i", "t", "t", "i", "n", "g">>,
      RADIAL |-> <<"R", "A", "D", "I", "A", "L">>,
      brachial_site |->
          <<"b", "r", "a", "c", "h", "i", "a", "l", " ", "s", "i", "t", "e">>,
      Small_child |->
          <<"S", "m", "a", "l", "l", " ", "c", "h", "i", "l", "d">>,
      Fingers |-> <<"F", "i", "n", "g", "e", "r", "s">> ]

Labels ==
    {lbl.Chest, lbl.STERNUM, lbl.Hand_Placement, lbl.Person,
     lbl.Head, lbl.body, lbl.Carotid_artery, lbl.Neck,
     lbl.Pulse_point, lbl.Upper_Arm, lbl.Forearm, lbl.Wrist,
     lbl.Face, lbl.Infant, lbl.Sitting, lbl.RADIAL,
     lbl.brachial_site, lbl.Small_child, lbl.Fingers}

\* label.toLowerCase().includes(keyword), tabulated over Labels x Keywords
LabelMatches ==
    [l \in Labels |-> {k \in Keywords : includes(toLowerCase(l), k)}]

labelIncludes(label, k) == k \in LabelMatches[label]

\* one element of result.detections, as far as the two services read it
DDet(x, y, c, label) == [x |-> x, y |-> y, confidence |-> c, label |-> label]

\* Array.prototype.find: the first index whose element satisfies, or 0
FirstOf(S) == IF S = {} THEN 0 ELSE CHOOSE i \in S : \A j \in S : i <= j

\* Array.prototype.filter, as the increasing sequence of indices kept
RECURSIVE FilterIdx(_, _)
FilterIdx(S, from) ==
    IF \A i \in S : i < from THEN <<>>
    ELSE IF from \in S THEN <<from>> \o FilterIdx(S, from + 1)
    ELSE FilterIdx(S, from + 1)

RECURSIVE SumOf(_, _)
SumOf(detections, field) ==
    IF detections = <<>> THEN 0
    ELSE Head(detections)[field] + SumOf(Tail(detections), field)

RECURSIVE MathMax(_)
MathMax(detections) ==
    IF Len(detections) = 1 THEN detections[1].confidence
    ELSE LET m == MathMax(Tail(detections))
         IN IF detections[1].confidence >= m THEN detections[1].confidence ELSE m

maxConfidence(detections) ==
    IF Len(detections) > 0 THEN MathMax(detections) ELSE 0

convertGeminiDetectionsToKeypoints(detections) ==
    [i \in 1..Len(detections) |->
        [x |-> detections[i].x, y |-> detections[i].y,
         score |-> detections[i].confidence, name |-> detections[i].label]]

calculateChestCenterFromDetections_Mean(detections) ==
    IF Len(detections) > 0
    THEN Pt(SumOf(detections, "x") \div Len(detections),
            SumOf(detections, "y") \div Len(detections))
    ELSE NoPoint

calculateChestCenterFromDetections(detections) ==
    LET chestDetection ==
            FirstOf({i \in 1..Len(detections) :
                        \/ labelIncludes(detections[i].label, kw.chest)
                        \/ labelIncludes(detections[i].label, kw.sternum)
                        \/ labelIncludes(detections[i].label, kw.hand)})
    IN IF chestDetection # 0
       THEN Pt(detections[chestDetection].x, detections[chestDetection].y)
       ELSE IF Len(detections) > 0
       THEN Pt(SumOf(detections, "x") \div Len(detections),
               SumOf(detections, "y") \div Len(detections))
       ELSE NoPoint

isPersonLyingDownFromDetections_Always(detections) == Len(detections) > 0

isPersonLyingDownFromDetections(detections) ==
    LET bodyDetections ==
            {i \in 1..Len(detections) :
                \/ labelIncludes(detections[i].label, kw.chest)
                \/ labelIncludes(detections[i].label, kw.body)
                \/ labelIncludes(detections[i].label, kw.person)}
    IN Cardinality(bodyDetections) > 0

getHandPositionsFromDetections(detections) ==
    LET handDetections ==
            FilterIdx({i \in 1..Len(detections) :
                          \/ labelIncludes(detections[i].label, kw.hand)
                          \/ labelIncludes(detections[i].label, kw.wrist)}, 1)
    IN [left |-> IF Len(handDetections) >= 1
                 THEN Pt(detections[handDetections[1]].x,
                         detections[handDetections[1]].y)
                 ELSE NoPoint,
        right |-> IF Len(handDetections) >= 2
                  THEN Pt(detections[handDetections[2]].x,
                          detections[handDetections[2]].y)
                  ELSE NoPoint]

\* detectPose once the analysis has returned result.detections
detectPose(detections) ==
    [keypoints |-> convertGeminiDetectionsToKeypoints(detections),
     chestCenter |-> calculateChestCenterFromDetections(detections),
     isPersonLyingDown |-> isPersonLyingDownFromDetections(detections),
     confidence |-> maxConfidence(detections),
     handPositions |-> getHandPositionsFromDetections(detections)]

calculateHandPlacementTarget(poseResult) ==
    IF ~poseResult.chestCenter.present \/ ~poseResult.isPersonLyingDown
    THEN NoTarget
    ELSE Target(poseResult.chestCenter.x, poseResult.chestCenter.y,
                poseResult.confidence, "")

PulsePositions == {"carotid", "brachial", "radial"}

\* the characters of a PulsePosition, for includes(preferredPosition)
positionChars(position) ==
    CASE position = "carotid" -> kw.carotid
      [] position = "brachial" -> kw.brachial
      [] position = "radial" -> kw.radial

extractPulsePointsFromDetections(detections) ==
    LET carotidDetection ==
            FirstOf({i \in 1..Len(detections) :
                        \/ labelIncludes(detections[i].label, kw.carotid)
                        \/ labelIncludes(detections[i].label, kw.neck)
                        \/ (labelIncludes(detections[i].label, kw.pulse)
                            /\ detections[i].y < 50)})
        brachialDetection ==
            FirstOf({i \in 1..Len(detections) :
                        \/ labelIncludes(detections[i].label, kw.brachial)
                        \/ labelIncludes(detections[i].label, kw.upper_arm)
                        \/ (labelIncludes(detections[i].label, kw.arm)
                            /\ detections[i].y > 30 /\ detections[i].y < 70)})
        radialDetection ==
            FirstOf({i \in 1..Len(detections) :
                        \/ labelIncludes(detections[i].label, kw.radial)
                        \/ labelIncludes(detections[i].label, kw.wrist)
                        \/ (labelIncludes(detections[i].label, kw.pulse)
                            /\ detections[i].y > 60)})
        point(i) == IF i # 0 THEN Pt(detections[i].x, detections[i].y)
                    ELSE NoPoint
    IN [carotid |-> point(carotidDetection),
        brachial |-> point(brachialDetection),
        radial |-> point(radialDetection)]

determineRecommendedPosition_PreferredFirst(detections, preferredPosition) ==
    IF preferredPosition # "" THEN preferredPosition ELSE "carotid"

determineRecommendedPosition(detections, preferredPosition) ==
    LET some(k) == \E i \in 1..Len(detections) :
                        labelIncludes(detections[i].label, k)
        hasPreferredPosition ==
            preferredPosition # "" /\ some(positionChars(preferredPosition))
        hasChildIndicators == some(kw.child) \/ some(kw.infant) \/ some(kw.small)
        hasAdultIndicators == some(kw.adult) \/ some(kw.large)
        hasConsciousIndicators ==
            some(kw.sitting) \/ some(kw.conscious) \/ some(kw.awake)
    IN IF hasPreferredPosition THEN preferredPosition
       ELSE IF hasChildIndicators THEN "brachial"
       ELSE IF hasConsciousIndicators THEN "radial"
       ELSE "carotid"

getFingerPositionsFromDetections(detections) ==
    LET fingerDetections ==
            {i \in 1..Len(detections) :
                \/ labelIncludes(detections[i].label, kw.finger)
                \/ labelIncludes(detections[i].label, kw.hand)}
        leftFingers == FilterIdx({i \in fingerDetections : detections[i].x < 50}, 1)
        rightFingers == FilterIdx({i \in fingerDetections : detections[i].x >= 50}, 1)
    IN [left |-> IF Len(leftFingers) > 0
                 THEN Pt(detections[leftFingers[1]].x, detections[leftFingers[1]].y)
                 ELSE NoPoint,
        right |-> IF Len(rightFingers) > 0
                  THEN Pt(detections[rightFingers[1]].x, detections[rightFingers[1]].y)
                  ELSE NoPoint]

\* detectPulse once the analysis has returned result.detections
detectPulse(detections, preferredPosition) ==
    [keypoints |-> convertGeminiDetectionsToKeypoints(detections),
     pulsePoints |-> extractPulsePointsFromDetections(detections),
     recommendedPosition |->
         determineRecommendedPosition(detections, preferredPosition),
     confidence |-> maxConfidence(detections),
     fingerPositions |-> getFingerPositionsFromDetections(detections),
     isPersonDetected |-> Len(detections) > 0]

calculatePulseTarget_AnySite(poseResult, position) ==
    LET present == {s \in PulsePositions : poseResult.pulsePoints[s].present}
    IN IF present = {} THEN NoTarget
       ELSE LET s == IF position \in present THEN position
                     ELSE CHOOSE t \in present : TRUE
            IN Target(poseResult.pulsePoints[s].x, poseResult.pulsePoints[s].y,
                      poseResult.confidence, position)

calculatePulseTarget(poseResult, position) ==
    IF ~poseResult.isPersonDetected THEN NoTarget
    ELSE LET pulsePoint == poseResult.pulsePoints[position]
         IN IF ~pulsePoint.present THEN NoTarget
            ELSE Target(pulsePoint.x, pulsePoint.y, poseResult.confidence,
                        position)

\* ---- the calls DetectSpec makes

SeqsUpTo(S, n) == UNION {[1..k -> S] : k \in 0..n}

Images == {<<200, 200>>, <<400, 200>>}

AccuracyTargets == {Target(50, 50, 90, ""), Target(25, 50, 90, "")}

LivePoints ==
    {Pt(10000, 10000), Pt(13000, 10000), Pt(13001, 10000), Pt(14500, 10000),
     Pt(14501, 10000), Pt(15000, 10000), Pt(15001, 10000), Pt(20000, 10000),
     Pt(20001, 10000), Pt(11800, 12400), Pt(13000, 14000)}

PoseLabels == {lbl.Chest, lbl.STERNUM, lbl.Hand_Placement, lbl.Person, lbl.Head}

\* coordinates are multiples of 12, so the mean of up to four is a whole
\* number of hundredths
PoseDetections ==
    {DDet(x, y, c, l) : x \in {12, 60}, y \in {24, 72}, c \in {50, 90},
                        l \in PoseLabels}

PulseLabels == {lbl.Carotid_artery, lbl.Neck, lbl.Pulse_point, lbl.Upper_Arm,
                lbl.Forearm, lbl.Wrist, lbl.Face}

PulseDetections ==
    {DDet(20, y, 80, l) : y \in {30, 40, 50, 60, 70}, l \in PulseLabels}

SiteLabels == {lbl.Infant, lbl.Small_child, lbl.Sitting, lbl.RADIAL,
               lbl.brachial_site, lbl.Carotid_artery, lbl.Face}

SiteDetections == {DDet(50, 50, 80, l) : l \in SiteLabels}

Call(op, kind, target, positions, image, detections, preferred, position) ==
    [op |-> op, kind |-> kind, target |-> target, positions |-> positions,
     imageWidth |-> image[1], imageHeight |-> image[2],
     detections |-> detections, preferredPosition |-> preferred,
     position |-> position]

NoPositions == [left |-> NoPoint, right |-> NoPoint]

AccuracyCalls ==
    {Call("accuracy", kind, t, [left |-> l, right |-> r], image, <<>>, "", "") :
        kind \in {"hand", "finger"}, t \in AccuracyTargets,
        l \in LivePoints \cup {NoPoint}, r \in LivePoints \cup {NoPoint},
        image \in Images}

ChestCall(ds) ==
    Call("chest", "", NoTarget, NoPositions, <<200, 200>>, ds, "", "")

PulseCall(ds, p) ==
    Call("pulse", "", NoTarget, NoPositions, <<200, 200>>, ds, "", p)

SiteCall(ds, pref) ==
    Call("site", "", NoTarget, NoPositions, <<200, 200>>, ds, pref, "")

NotCalled == [done |-> FALSE, accuracy |-> "", target |-> NoTarget,
              recommendedPosition |-> ""]

Answer(accuracy, target, recommended) ==
    [done |-> TRUE, accuracy |-> accuracy, target |-> target,
     recommendedPosition |-> recommended]

DInit ==
    /\ \/ dIn \in AccuracyCalls
       \/ \E ds \in SeqsUpTo(PoseDetections, MaxDetections) : dIn = ChestCall(ds)
       \/ \E ds \in SeqsUpTo(PulseDetections, MaxDetections), p \in PulsePositions :
              dIn = PulseCall(ds, p)
       \/ \E ds \in SeqsUpTo(SiteDetections, MaxDetections),
             pref \in PulsePositions \cup {""} : dIn = SiteCall(ds, pref)
    /\ dOut = NotCalled

DIdle ==
    /\ dIn = Call("accuracy", "hand", Target(50, 50, 90, ""), NoPositions,
                  <<200, 200>>, <<>>, "", "")
    /\ dOut = NotCalled

\* calculateHandPlacementAccuracy / calculateFingerPlacementAccuracy
ClassifyPlacement ==
    /\ dIn.op = "accuracy"
    /\ ~dOut.done
    /\ dOut' = Answer(IF dIn.kind = "hand"
                      THEN calculateHandPlacementAccuracy(
                               dIn.target, dIn.positions, dIn.imageWidth,
                               dIn.imageHeight)
                      ELSE calculateFingerPlacementAccuracy(
                               dIn.target, dIn.positions, dIn.imageWidth,
                               dIn.imageHeight),
                      NoTarget, "")
    /\ UNCHANGED <<dIn, gvars, cvars, mvars, xrvars, tvars, avars, vvars, evars>>

\* detectPose on the analysed detections, then calculateHandPlacementTarget
ResolveChestTarget ==
    /\ dIn.op = "chest"
    /\ ~dOut.done
    /\ dOut' = Answer("", calculateHandPlacementTarget(detectPose(dIn.detections)),
                      "")
    /\ UNCHANGED <<dIn, gvars, cvars, mvars, xrvars, tvars, avars, vvars, evars>>

\* detectPulse on the analysed detections, then calculatePulseTarget
ResolvePulseTarget ==
    /\ dIn.op = "pulse"
    /\ ~dOut.done
    /\ dOut' = Answer("", calculatePulseTarget(
                              detectPulse(dIn.detections, dIn.preferredPosition),
                              dIn.position), "")
    /\ UNCHANGED <<dIn, gvars, cvars, mvars, xrvars, tvars, avars, vvars, evars>>

\* detectPulse's recommendedPosition
RecommendPosition ==
    /\ dIn.op = "site"
    /\ ~dOut.done
    /\ dOut' = Answer("", NoTarget,
                      detectPulse(dIn.detections, dIn.preferredPosition)
                          .recommendedPosition)
    /\ UNCHANGED <<dIn, gvars, cvars, mvars, xrvars, tvars, avars, vvars, evars>>

DetectNext ==
    \/ ClassifyPlacement
    \/ ResolveChestTarget
    \/ ResolvePulseTarget
    \/ RecommendPosition

----------------------------------------------------------------------------
(* components/XRCPRModal.tsx and components/XRPulseModal.tsx: placement    *)
(* feedback after a photo is analysed. The instruction text set next to    *)
(* each detectionStatus is left out.                                       *)

XrComponents == {"XRCPRModal", "XRPulseModal"}

positions == <<"carotid", "brachial", "radial">>

indexOf(seq, v) == CHOOSE i \in 1..Len(seq) : seq[i] = v

\* what the evaluation did: the status and target it set, the accuracy it
\* computed ("none" when it returned before classifying) and whether it
\* called Haptics.impactAsync(ImpactFeedbackStyle.Light)
Evaluation(status, target, accuracy, light) ==
    [detectionStatus |-> status, target |-> target, accuracy |-> accuracy,
     lightImpact |-> light]

updateDetectionStatus(result, imageWidth, imageHeight) ==
    IF Len(result.keypoints) = 0
    THEN Evaluation("no_person", NoTarget, "none", FALSE)
    ELSE IF ~result.isPersonLyingDown
    THEN Evaluation("not_lying_down", NoTarget, "none", FALSE)
    ELSE IF ~result.chestCenter.present
    THEN Evaluation("person_found", NoTarget, "none", FALSE)
    ELSE LET target == calculateHandPlacementTarget(result)
         IN IF ~target.present
            THEN Evaluation("person_found", target, "none", FALSE)
            ELSE LET accuracy == calculateHandPlacementAccuracy(
                                     target, result.handPositions,
                                     imageWidth, imageHeight)
                 IN CASE accuracy = "correct" ->
                             Evaluation("hands_correct", target, accuracy, TRUE)
                      [] accuracy = "adjust" ->
                             Evaluation("hands_adjust", target, accuracy, FALSE)
                      [] accuracy = "incorrect" ->
                             Evaluation("hands_incorrect", target, accuracy, FALSE)

updateDetectionStatusForPosition(result, position, imageWidth, imageHeight) ==
    IF ~result.isPersonDetected
    THEN Evaluation("no_person", NoTarget, "none", FALSE)
    ELSE LET target == calculatePulseTarget(result, position)
         IN IF ~target.present
            THEN Evaluation("person_found", target, "none", FALSE)
            ELSE LET accuracy == calculateFingerPlacementAccuracy(
                                     target, result.fingerPositions,
                                     imageWidth, imageHeight)
                 IN CASE accuracy = "correct" ->
                             Evaluation("finger_correct", target, accuracy, TRUE)
                      [] accuracy = "adjust" ->
                             Evaluation("finger_adjust", target, accuracy, FALSE)
                      [] accuracy = "incorrect" ->
                             Evaluation("finger_incorrect", target, accuracy, FALSE)

\* analysed photos: the chest or pulse site lies near the top-left corner
\* (6,6), further out (12,12), (30,6), or mid-frame (60,60), where the hand
\* or the fingers can lie on it
PoseScenes ==
    {<<>>,
     <<DDet(6, 6, 80, lbl.Head)>>,
     <<DDet(6, 6, 80, lbl.Chest)>>,
     <<DDet(6, 6, 80, lbl.Chest), DDet(60, 60, 80, lbl.Hand_Placement)>>,
     <<DDet(30, 6, 80, lbl.Chest), DDet(60, 60, 80, lbl.Hand_Placement)>>,
     <<DDet(60, 60, 80, lbl.Chest), DDet(6, 6, 80, lbl.Hand_Placement)>>,
     <<DDet(60, 60, 80, lbl.Chest), DDet(60, 60, 80, lbl.Hand_Placement)>>}

PulseScenes ==
    {<<>>,
     <<DDet(6, 6, 80, lbl.Fingers)>>,
     <<DDet(6, 6, 80, lbl.Neck)>>,
     <<DDet(6, 6, 80, lbl.Neck), DDet(60, 60, 80, lbl.Fingers)>>,
     <<DDet(12, 12, 80, lbl.Neck), DDet(60, 60, 80, lbl.Fingers)>>,
     <<DDet(60, 60, 80, lbl.Neck), DDet(6, 6, 80, lbl.Fingers)>>,
     <<DDet(60, 60, 80, lbl.Neck), DDet(60, 60, 80, lbl.Fingers)>>,
     <<DDet(6, 6, 80, lbl.Neck), DDet(6, 12, 80, lbl.Upper_Arm),
       DDet(60, 60, 80, lbl.Wrist), DDet(60, 60, 80, lbl.Fingers)>>}

LayoutSizes == {<<200, 200>>, <<400, 200>>}

\* useState initial values
InitialXr(component) ==
    [component |-> component, imageWidth |-> 0, imageHeight |-> 0,
     hasResult |-> FALSE, poseResult |-> detectPose(<<>>),
     pulseResult |-> detectPulse(<<>>, ""), currentPosition |-> "carotid",
     detectionStatus |-> "detecting", target |-> NoTarget]

NoEvaluation == [op |-> "init", accuracy |-> "none", lightImpact |-> FALSE]

XInit ==
    /\ xr \in {InitialXr(c) : c \in XrComponents}
    /\ xrLog = NoEvaluation

XrIdle ==
    /\ xr = InitialXr("XRCPRModal")
    /\ xrLog = NoEvaluation

\* onLayout of the camera view
OnLayout(size) ==
    /\ <<xr.imageWidth, xr.imageHeight>> # size
    /\ xr' = [xr EXCEPT !.imageWidth = size[1], !.imageHeight = size[2]]
    /\ xrLog' = [xrLog EXCEPT !.op = "layout", !.lightImpact = FALSE]
    /\ UNCHANGED <<gvars, cvars, mvars, dvars, tvars, avars, vvars, evars>>

\* XRCPRModal detectPose, from the photo to setIsDetecting(false)
DetectPose(detections) ==
    /\ xr.component = "XRCPRModal"
    /\ LET result == detectPose(detections)
           e == updateDetectionStatus(result, xr.imageWidth, xr.imageHeight)
       IN /\ xr' = [xr EXCEPT !.hasResult = TRUE, !.poseResult = result,
                              !.detectionStatus = e.detectionStatus,
                              !.target = e.target]
          /\ xrLog' = [op |-> "evaluate", accuracy |-> e.accuracy,
                       lightImpact |-> e.lightImpact]
    /\ UNCHANGED <<gvars, cvars, mvars, dvars, tvars, avars, vvars, evars>>

\* XRPulseModal detectPulse, from the photo to setIsDetecting(false)
DetectPulse(detections) ==
    /\ xr.component = "XRPulseModal"
    /\ LET result == detectPulse(detections, xr.currentPosition)
           e == updateDetectionStatusForPosition(
                    result, xr.currentPosition, xr.imageWidth, xr.imageHeight)
       IN /\ xr' = [xr EXCEPT !.hasResult = TRUE, !.pulseResult = result,
                              !.detectionStatus = e.detectionStatus,
                              !.target = e.target]
          /\ xrLog' = [op |-> "evaluate", accuracy |-> e.accuracy,
                       lightImpact |-> e.lightImpact]
    /\ UNCHANGED <<gvars, cvars, mvars, dvars, tvars, avars, vvars, evars>>

\* XRPulseModal cyclePosition
CyclePosition ==
    /\ xr.component = "XRPulseModal"
    /\ LET currentIndex == indexOf(positions, xr.currentPosition)
           nextIndex == (currentIndex % Len(positions)) + 1
           nextPosition == positions[nextIndex]
           e == updateDetectionStatusForPosition(
                    xr.pulseResult, nextPosition, xr.imageWidth, xr.imageHeight)
       IN IF xr.hasResult
          THEN /\ xr' = [xr EXCEPT !.currentPosition = nextPosition,
                                   !.detectionStatus = e.detectionStatus,
                                   !.target = e.target]
               /\ xrLog' = [op |-> "evaluate", accuracy |-> e.accuracy,
                            lightImpact |-> e.lightImpact]
          ELSE /\ xr' = [xr EXCEPT !.currentPosition = nextPosition]
               /\ xrLog' = [xrLog EXCEPT !.op = "cycle", !.lightImpact = FALSE]
    /\ UNCHANGED <<gvars, cvars, mvars, dvars, tvars, avars, vvars, evars>>

\* the modal is closed and shown again: the reset effect on !visible
CloseModal ==
    /\ xr.hasResult
    /\ xr' = [InitialXr(xr.component) EXCEPT
                  !.imageWidth = xr.imageWidth, !.imageHeight = xr.imageHeight]
    /\ xrLog' = [op |-> "close", accuracy |-> "none", lightImpact |-> FALSE]
    /\ UNCHANGED <<gvars, cvars, mvars, dvars, tvars, avars, vvars, evars>>

XrNext ==
    \/ \E size \in LayoutSizes : OnLayout(size)
    \/ \E ds \in PoseScenes : DetectPose(ds)
    \/ \E ds \in PulseScenes : DetectPulse(ds)
    \/ CyclePosition
    \/ CloseModal

----------------------------------------------------------------------------
(* The 10-second pulse-check countdown: XRPulseModal startTimer/stopTimer  *)
(* (setInterval) and PulseScreen's countdown effect (setTimeout chain).    *)

CountdownComponents == {"XRPulseModal", "PulseScreen"}

CountdownFrom == 10

\* countdown === null
NullCountdown == -1

InitialTimer(component) ==
    [component |-> component,
     \* XRPulseModal
     timerActive |-> FALSE, timerSeconds |-> CountdownFrom, timerRef |-> 0,
     intervals |-> {}, nextInterval |-> 1,
     \* PulseScreen
     countdown |-> NullCountdown, timeout |-> FALSE]

\* what the last step did: success haptic, Speech.speak of the "time up"
\* prompt, light impact haptic; and the success haptics fired so far
NoTimerLog == [op |-> "init", success |-> FALSE, prompt |-> FALSE,
               light |-> FALSE, completions |-> 0]

TimerLog(op, success, prompt, light) ==
    [op |-> op, success |-> success, prompt |-> prompt, light |-> light,
     completions |-> tLog.completions + IF success THEN 1 ELSE 0]

TInit ==
    /\ timer \in {InitialTimer(c) : c \in CountdownComponents}
    /\ tLog = NoTimerLog

TIdle ==
    /\ timer = InitialTimer("XRPulseModal")
    /\ tLog = NoTimerLog

\* XRPulseModal startTimer: the interval of an earlier run is not cleared
StartTimer ==
    /\ timer.component = "XRPulseModal"
    /\ ~timer.timerActive
    /\ timer.nextInterval <= MaxIntervals
    /\ timer' = [timer EXCEPT !.timerActive = TRUE,
                              !.timerSeconds = CountdownFrom,
                              !.timerRef = timer.nextInterval,
                              !.intervals = @ \cup {timer.nextInterval},
                              !.nextInterval = @ + 1]
    /\ tLog' = TimerLog("start", FALSE, FALSE, FALSE)
    /\ UNCHANGED <<gvars, cvars, mvars, dvars, xrvars, avars, vvars, evars>>

\* the interval callback: setTimerSeconds((prev) => ...)
IntervalTick(id) ==
    /\ timer.component = "XRPulseModal"
    /\ id \in timer.intervals
    /\ timer.timerSeconds > 1 \/ tLog.completions < MaxCompletions
    /\ LET prev == timer.timerSeconds
       IN IF prev <= 1
          THEN /\ timer' = [timer EXCEPT !.timerActive = FALSE,
                                         !.timerSeconds = 0]
               /\ tLog' = TimerLog("tick", TRUE, TRUE, FALSE)
          ELSE /\ timer' = [timer EXCEPT !.timerSeconds = prev - 1]
               /\ tLog' = TimerLog("tick", FALSE, FALSE, prev <= 5)
    /\ UNCHANGED <<gvars, cvars, mvars, dvars, xrvars, avars, vvars, evars>>

\* XRPulseModal stopTimer
StopTimer ==
    /\ timer.component = "XRPulseModal"
    /\ timer' = [timer EXCEPT !.intervals = @ \ {timer.timerRef},
                              !.timerRef = 0,
                              !.timerActive = FALSE,
                              !.timerSeconds = CountdownFrom]
    /\ tLog' = TimerLog("stop", FALSE, FALSE, FALSE)
    /\ UNCHANGED <<gvars, cvars, mvars, dvars, xrvars, avars, vvars, evars>>

\* PulseScreen: the effect on [countdown], run after a render with value c
countdownEffect(c) ==
    IF c = NullCountdown THEN [timeout |-> FALSE, success |-> FALSE]
    ELSE IF c = 0 THEN [timeout |-> FALSE, success |-> TRUE]
    ELSE [timeout |-> TRUE, success |-> FALSE]

\* PulseScreen: "Start 10-sec Timer", shown while countdown === null
PressStartCountdown ==
    /\ timer.component = "PulseScreen"
    /\ timer.countdown = NullCountdown
    /\ tLog.completions < MaxCompletions
    /\ timer' = [timer EXCEPT !.countdown = CountdownFrom,
                              !.timeout = countdownEffect(CountdownFrom).timeout]
    /\ tLog' = TimerLog("start", countdownEffect(CountdownFrom).success,
                        FALSE, FALSE)
    /\ UNCHANGED <<gvars, cvars, mvars, dvars, xrvars, avars, vvars, evars>>

\* PulseScreen: the timeout fires, setCountdown((c) => (c ?? 0) - 1)
TimeoutFires ==
    /\ timer.component = "PulseScreen"
    /\ timer.timeout
    /\ LET c == (IF timer.countdown = NullCountdown THEN 0
                 ELSE timer.countdown) - 1
       IN /\ timer' = [timer EXCEPT !.countdown = c,
                                    !.timeout = countdownEffect(c).timeout]
          /\ tLog' = TimerLog("tick", countdownEffect(c).success, FALSE, FALSE)
    /\ UNCHANGED <<gvars, cvars, mvars, dvars, xrvars, avars, vvars, evars>>

\* PulseScreen: Cancel, "Pulse Present", "No Pulse": setCountdown(null); the
\* effect's cleanup clears the pending timeout
CancelCountdown ==
    /\ timer.component = "PulseScreen"
    /\ timer.countdown # NullCountdown
    /\ timer' = [timer EXCEPT !.countdown = NullCountdown, !.timeout = FALSE]
    /\ tLog' = TimerLog("stop", FALSE, FALSE, FALSE)
    /\ UNCHANGED <<gvars, cvars, mvars, dvars, xrvars, avars, vvars, evars>>

TimerNext ==
    \/ StartTimer
    \/ \E id \in 1..MaxIntervals : IntervalTick(id)
    \/ StopTimer
    \/ PressStartCountdown
    \/ TimeoutFires
    \/ CancelCountdown

----------------------------------------------------------------------------
(* Audio playback: AudioService.playAudio / stopAudio (audioService.ts),   *)
(* used by the voice assistant, next to the playback of                    *)
(* EmergencyCoordinatorService.executeFeedback and FishService.playFishAudio, *)
(* which create their sound themselves. Every await is a step boundary.    *)

\* the callers that can have a playback in progress
AudioPlayers == {"assistantA", "assistantB", "coordinator", "fish"}

\* those that play through AudioService.playAudio
UsesAudioService(p) == p \in {"assistantA", "assistantB"}

\* the caller of AudioService.stopAudio alone: the voice assistant's clearChat
AudioStoppers == {"clearChat"}

AudioCallers == AudioPlayers \cup AudioStoppers

NoSound == 0

IdlePlayer == [pc |-> "idle", sound |-> NoSound]

AInit ==
    /\ audio = [currentSound |-> NoSound, playing |-> {}, nextSound |-> 1]
    /\ players = [p \in AudioCallers |-> IdlePlayer]

\* a request starts: playAudio and clearChat enter stopAudio; executeFeedback
\* and playFishAudio go to setAudioModeAsync and createAsync
enterRequest(p) ==
    /\ players[p].pc = "idle"
    /\ players' = [players EXCEPT
                      ![p].pc = IF UsesAudioService(p) \/ p \in AudioStoppers
                                THEN "stopAudio" ELSE "create"]
    /\ UNCHANGED audio

\* createAsync rejects: playAudio's catch clears currentSound and rethrows
createFails(p) ==
    /\ players[p].pc = "create"
    /\ audio' = [audio EXCEPT !.currentSound =
                     IF UsesAudioService(p) THEN NoSound ELSE @]
    /\ players' = [players EXCEPT ![p] = IdlePlayer]

\* stopAudio has returned to a caller that only stops
stopReturns(p) ==
    /\ players[p].pc = "create"
    /\ players' = [players EXCEPT ![p] = IdlePlayer]
    /\ UNCHANGED audio

PlayRequest(p) ==
    /\ audio.nextSound <= MaxSounds
    /\ enterRequest(p)
    /\ UNCHANGED <<gvars, cvars, mvars, dvars, xrvars, tvars, vvars, evars>>

StopRequest(p) ==
    /\ audio.currentSound # NoSound \/ audio.playing # {}
    /\ enterRequest(p)
    /\ UNCHANGED <<gvars, cvars, mvars, dvars, xrvars, tvars, vvars, evars>>

\* stopAudio: if (this.currentSound) await this.currentSound.stopAsync()
StopAsync(p) ==
    /\ players[p].pc = "stopAudio"
    /\ IF audio.currentSound = NoSound
       THEN /\ players' = [players EXCEPT ![p].pc = "create"]
            /\ UNCHANGED audio
       ELSE /\ audio' = [audio EXCEPT !.playing = @ \ {audio.currentSound}]
            /\ players' = [players EXCEPT ![p].pc = "unload"]
    /\ UNCHANGED <<gvars, cvars, mvars, dvars, xrvars, tvars, vvars, evars>>

\* stopAudio: await this.currentSound.unloadAsync(); a null currentSound
\* throws into the catch, which sets this.currentSound = null
UnloadAsync(p) ==
    /\ players[p].pc = "unload"
    /\ IF audio.currentSound = NoSound
       THEN /\ players' = [players EXCEPT ![p].pc = "create"]
            /\ UNCHANGED audio
       ELSE /\ audio' = [audio EXCEPT !.playing = @ \ {audio.currentSound}]
            /\ players' = [players EXCEPT ![p].pc = "clear"]
    /\ UNCHANGED <<gvars, cvars, mvars, dvars, xrvars, tvars, vvars, evars>>

\* stopAudio: this.currentSound = null; stopAudio returns
ClearCurrent(p) ==
    /\ players[p].pc = "clear"
    /\ audio' = [audio EXCEPT !.currentSound = NoSound]
    /\ players' = [players EXCEPT ![p].pc = "create"]
    /\ UNCHANGED <<gvars, cvars, mvars, dvars, xrvars, tvars, vvars, evars>>

\* Audio.Sound.createAsync(..., { shouldPlay: true }): the sound starts
CreateAsync(p) ==
    /\ players[p].pc = "create"
    /\ audio.nextSound <= MaxSounds
    /\ audio' = [audio EXCEPT !.playing = @ \cup {audio.nextSound},
                              !.nextSound = @ + 1]
    /\ players' = [players EXCEPT
                      ![p] = [pc |-> IF UsesAudioService(p) THEN "store"
                                     ELSE "wait",
                              sound |-> audio.nextSound]]
    /\ UNCHANGED <<gvars, cvars, mvars, dvars, xrvars, tvars, vvars, evars>>

CreateFails(p) ==
    createFails(p) /\ UNCHANGED <<gvars, cvars, mvars, dvars, xrvars, tvars, vvars, evars>>

\* playAudio: this.currentSound = sound
StoreCurrent(p) ==
    /\ players[p].pc = "store"
    /\ audio' = [audio EXCEPT !.currentSound = players[p].sound]
    /\ players' = [players EXCEPT ![p].pc = "wait"]
    /\ UNCHANGED <<gvars, cvars, mvars, dvars, xrvars, tvars, vvars, evars>>

\* the status callback with didJustFinish: sound.unloadAsync(), playAudio
\* also clears currentSound; the promise resolves
DidJustFinish(p) ==
    /\ players[p].pc = "wait"
    /\ players[p].sound \in audio.playing
    /\ audio' = [audio EXCEPT !.playing = @ \ {players[p].sound},
                              !.currentSound =
                                  IF UsesAudioService(p) THEN NoSound ELSE @]
    /\ players' = [players EXCEPT ![p] = IdlePlayer]
    /\ UNCHANGED <<gvars, cvars, mvars, dvars, xrvars, tvars, vvars, evars>>

StopReturns(p) ==
    stopReturns(p) /\ UNCHANGED <<gvars, cvars, mvars, dvars, xrvars, tvars, vvars, evars>>

AudioNext ==
    \/ \E p \in AudioPlayers : PlayRequest(p)
    \/ \E p \in AudioStoppers : StopRequest(p)
    \/ \E p \in AudioCallers : StopAsync(p)
    \/ \E p \in AudioCallers : UnloadAsync(p)
    \/ \E p \in AudioCallers : ClearCurrent(p)
    \/ \E p \in AudioPlayers : CreateAsync(p)
    \/ \E p \in AudioPlayers : CreateFails(p)
    \/ \E p \in AudioPlayers : StoreCurrent(p)
    \/ \E p \in AudioPlayers : DidJustFinish(p)
    \/ \E p \in AudioStoppers : StopReturns(p)

----------------------------------------------------------------------------
(* The voice assistant (SimpleCPRVoiceButton).  A question is answered by      *)
(* askGemini, which shows the reply and speaks it with speakWithGemini: the    *)
(* reply is split into sentences, the first two are synthesised before         *)
(* playback starts, the others while it runs, and each chunk is played through *)
(* AudioService.playAudio.  clearChat raises playbackCancelledRef and stops    *)
(* the audio.  A step runs a function up to its next await.  Texts are         *)
(* sequences of characters.                                                    *)

VoiceRuns == {"assistantA", "assistantB"}

Whitespace == {" "}

RECURSIVE trimStart(_)
trimStart(s) ==
    IF s # <<>> /\ Head(s) \in Whitespace THEN trimStart(Tail(s)) ELSE s

RECURSIVE trimEnd(_)
trimEnd(s) ==
    IF s # <<>> /\ s[Len(s)] \in Whitespace
    THEN trimEnd(SubSeq(s, 1, Len(s) - 1)) ELSE s

\* String.prototype.trim
trim(s) == trimEnd(trimStart(s))

\* .replace(/\s+/g, ' '): a run of whitespace becomes one space
RECURSIVE collapseSpaces(_)
collapseSpaces(s) ==
    IF s = <<>> THEN <<>>
    ELSE IF Head(s) \in Whitespace
    THEN <<" ">> \o collapseSpaces(trimStart(s))
    ELSE <<Head(s)>> \o collapseSpaces(Tail(s))

\* cleanTextForTTS on a text without markdown: its last two replacements
cleanTextForTTS(text) == trim(collapseSpaces(text))

SentenceEnd == {".", "!", "?"}

\* text.split(/(?<=[.!?])\s+/): the pieces between the whitespace runs that
\* follow a sentence end; cur is the piece being read
RECURSIVE splitAtSentenceEnds(_, _)
splitAtSentenceEnds(s, cur) ==
    IF s = <<>> THEN <<cur>>
    ELSE IF /\ Head(s) \in Whitespace
            /\ cur # <<>>
            /\ cur[Len(cur)] \in SentenceEnd
    THEN <<cur>> \o splitAtSentenceEnds(trimStart(s), <<>>)
    ELSE splitAtSentenceEnds(Tail(s), Append(cur, Head(s)))

\* .filter(sentence => sentence.trim().length > 0).map(s => s.trim())
RECURSIVE trimmedNonEmpty(_)
trimmedNonEmpty(pieces) ==
    IF pieces = <<>> THEN <<>>
    ELSE IF trim(Head(pieces)) # <<>>
    THEN <<trim(Head(pieces))>> \o trimmedNonEmpty(Tail(pieces))
    ELSE trimmedNonEmpty(Tail(pieces))

\* splitIntoSentences for a text of at most 100 characters
splitIntoSentences(text) == trimmedNonEmpty(splitAtSentenceEnds(text, <<>>))

\* SimpleCPRVoiceButton's getFallbackResponse: the words it looks for in the question
word ==
    [ cpr |-> <<"c", "p", "r">>,
      heart |-> <<"h", "e", "a", "r", "t">>,
      unconscious |->
          <<"u", "n", "c", "o", "n", "s", "c", "i", "o", "u", "s">>,
      choking |-> <<"c", "h", "o", "k", "i", "n", "g">>,
      airway |-> <<"a", "i", "r", "w", "a", "y">>,
      bleeding |-> <<"b", "l", "e", "e", "d", "i", "n", "g">>,
      blood |-> <<"b", "l", "o", "o", "d">> ]

\* the fallback texts, cut after the first word of their second sentence
fallbackText ==
    [ cpr |->
          <<"F", "o", "r", " ", "C", "P", "R", ":", " ", "C", "a", "l", "l", " ", "9", "1", "1", " ", "f", "i", "r", "s", "t", ".", " ", "P", "l", "a", "c", "e">>,
      choking |->
          <<"F", "o", "r", " ", "c", "h", "o", "k", "i", "n", "g", ":", " ", "C", "a", "l", "l", " ", "9", "1", "1", ".", " ", "S", "t", "a", "n", "d">>,
      bleeding |->
          <<"F", "o", "r", " ", "s", "e", "v", "e", "r", "e", " ", "b", "l", "e", "e", "d", "i", "n", "g", ":", " ", "C", "a", "l", "l", " ", "9", "1", "1", ".", " ", "A", "p", "p", "l", "y">>,
      default |->
          <<"I", "n", " ", "a", "n", "y", " ", "e", "m", "e", "r", "g", "e", "n", "c", "y", ",", " ", "c", "a", "l", "l", " ", "9", "1", "1", " ", "f", "i", "r", "s", "t", ".", " ", "S", "t", "a", "y">> ]

assistantFallbackResponse(question) ==
    LET q == toLowerCase(question)
    IN IF includes(q, word.cpr) \/ includes(q, word.heart)
          \/ includes(q, word.unconscious)
       THEN fallbackText.cpr
       ELSE IF includes(q, word.choking) \/ includes(q, word.airway)
       THEN fallbackText.choking
       ELSE IF includes(q, word.bleeding) \/ includes(q, word.blood)
       THEN fallbackText.bleeding
       ELSE fallbackText.default

\* askGemini up to setGeminiResponse: the model's reply, or the fallback when
\* generateText throws or the reply trims to nothing
finalReply(question, generated) ==
    LET reply == IF generated.threw THEN assistantFallbackResponse(question)
                 ELSE generated.text
    IN IF trim(reply) # <<>> THEN trim(reply)
       ELSE assistantFallbackResponse(question)

\* the transcribed questions
Questions == {<<"C", "P", "R", "?">>,
              <<"H", "i">>}

\* what geminiService.generateText does
Generated ==
    {[threw |-> TRUE, text |-> <<>>]}
        \cup {[threw |-> FALSE, text |-> t] :
                t \in {<<" ">>, 
                       <<" ", "O", "k", ".", " ">>,
                       <<"A", ".", " ", "B", ".", " ", "C", ".">>}}

IdleRun ==
    [pc |-> "idle", question |-> <<>>, reply |-> <<>>, sentences |-> 0,
     audioBuffer |-> 0, currentChunkIndex |-> 0, remainingIndex |-> 0,
     cleared |-> FALSE]

VInit ==
    /\ voice = [isProcessing |-> FALSE, isPlaying |-> FALSE,
                userQuestion |-> <<>>, geminiResponse |-> <<>>,
                playbackCancelledRef |-> FALSE, clears |-> 0]
    /\ runs = [r \in VoiceRuns |-> IdleRun]

\* Math.min(2, sentences.length)
initialChunks(n) == IF n < 2 THEN n ELSE 2

\* the end of a speakWithGemini run that fails (its catch block), then
\* askGemini's finally
speakFailed(v) == [v EXCEPT !.isProcessing = FALSE, !.isPlaying = FALSE]

\* the end of a speakWithGemini run that leaves its loop, then askGemini's
\* finally
speakEnded(v) == [v EXCEPT !.isProcessing = FALSE, !.isPlaying = FALSE]

\* the head of speakWithGemini's while loop, up to the next await: the run
\* leaves the loop, calls playAudio for a buffered chunk, or awaits the next
\* chunk that is being generated
loopHead(run, v) ==
    LET remaining == run.sentences - initialChunks(run.sentences)
    IN IF \/ ~(\/ run.currentChunkIndex < run.audioBuffer
               \/ run.remainingIndex < remaining)
          \/ v.playbackCancelledRef
       THEN [run |-> [run EXCEPT !.pc = "done"], voice |-> speakEnded(v),
             play |-> FALSE]
       ELSE IF run.currentChunkIndex < run.audioBuffer
       THEN [run |-> [run EXCEPT !.pc = "playAudio"], voice |-> v,
             play |-> TRUE]
       ELSE [run |-> [run EXCEPT !.pc = "awaitChunk"], voice |-> v,
             play |-> FALSE]

\* the run's part of speakWithGemini is in progress
Speaking(run) == run.pc \in {"initial", "playAudio", "awaitChunk"}

\* handleVoiceToResponse: the record button is enabled, the question is
\* transcribed and askGemini awaits generateText
Ask(r, question) ==
    /\ ~voice.isProcessing
    /\ runs[r].pc = "idle"
    /\ r = "assistantB" => runs["assistantA"].pc # "idle"
    /\ voice' = [voice EXCEPT !.isProcessing = TRUE,
                              !.userQuestion = question]
    /\ runs' = [runs EXCEPT ![r].pc = "generateText",
                            ![r].question = question]
    /\ UNCHANGED <<gvars, cvars, mvars, dvars, xrvars, tvars, avars, evars>>

\* generateText settles: askGemini shows the reply and speakWithGemini runs to
\* its first await (the first chunks are being synthesised)
GenerateTextSettles(r, generated) ==
    /\ runs[r].pc = "generateText"
    /\ LET reply == finalReply(runs[r].question, generated)
           n == Len(splitIntoSentences(cleanTextForTTS(reply)))
       IN /\ voice' = [voice EXCEPT
                          !.geminiResponse = reply,
                          !.isPlaying = TRUE,
                          !.playbackCancelledRef = FALSE,
                          !.isProcessing = IF n = 0 THEN FALSE ELSE @]
          /\ runs' = [runs EXCEPT
                         ![r].pc = IF n = 0 THEN "done" ELSE "initial",
                         ![r].question = <<>>,
                         ![r].reply = reply,
                         ![r].sentences = n]
    /\ UNCHANGED <<gvars, cvars, mvars, dvars, xrvars, tvars, avars, evars>>

\* Promise.allSettled of the first chunks: fulfilled of them are buffered; with
\* none the run throws, otherwise it enters the loop
InitialSettled(r, fulfilled) ==
    /\ runs[r].pc = "initial"
    /\ fulfilled <= initialChunks(runs[r].sentences)
    /\ LET buffered == [runs[r] EXCEPT !.audioBuffer = fulfilled]
           next == loopHead(buffered, voice)
       IN IF fulfilled = 0
          THEN /\ voice' = speakFailed(voice)
               /\ runs' = [runs EXCEPT ![r] = [buffered EXCEPT !.pc = "done"]]
               /\ UNCHANGED players
          ELSE /\ voice' = next.voice
               /\ runs' = [runs EXCEPT ![r] = next.run]
               /\ players' = IF next.play
                             THEN [players EXCEPT ![r].pc = "stopAudio"]
                             ELSE players
    /\ UNCHANGED <<audio, gvars, cvars, mvars, dvars, xrvars, tvars, evars>>

\* await remainingResults[remainingIndex] settles with a chunk or with null
AwaitedChunkSettles(r, ok) ==
    /\ runs[r].pc = "awaitChunk"
    /\ LET awaited == [runs[r] EXCEPT !.remainingIndex = @ + 1]
           skipped == loopHead([awaited EXCEPT !.currentChunkIndex = @ + 1],
                               voice)
       IN IF ok /\ ~voice.playbackCancelledRef
          THEN /\ runs' = [runs EXCEPT ![r] = [awaited EXCEPT
                                                  !.pc = "playAudio"]]
               /\ players' = [players EXCEPT ![r].pc = "stopAudio"]
               /\ UNCHANGED voice
          ELSE /\ runs' = [runs EXCEPT ![r] = skipped.run]
               /\ voice' = skipped.voice
               /\ players' = IF skipped.play
                             THEN [players EXCEPT ![r].pc = "stopAudio"]
                             ELSE players
    /\ UNCHANGED <<audio, gvars, cvars, mvars, dvars, xrvars, tvars, evars>>

\* playAudio has resolved: currentChunkIndex++ and the loop goes on
PlayAudioResolved(r) ==
    /\ runs[r].pc = "playAudio"
    /\ players[r].pc = "idle"
    /\ LET next == loopHead([runs[r] EXCEPT !.currentChunkIndex = @ + 1],
                            voice)
       IN /\ runs' = [runs EXCEPT ![r] = next.run]
          /\ voice' = next.voice
          /\ players' = IF next.play
                        THEN [players EXCEPT ![r].pc = "stopAudio"]
                        ELSE players
    /\ UNCHANGED <<audio, gvars, cvars, mvars, dvars, xrvars, tvars, evars>>

\* playAudio rejects (createAsync failed): speakWithGemini's catch
PlayAudioThrows(r) ==
    /\ runs[r].pc = "playAudio"
    /\ createFails(r)
    /\ runs' = [runs EXCEPT ![r].pc = "done"]
    /\ voice' = speakFailed(voice)
    /\ UNCHANGED <<gvars, cvars, mvars, dvars, xrvars, tvars, evars>>

\* clearChat up to its await of stopAudio; the button is shown when there is
\* a question, a response or a playback
ClearChat ==
    /\ \/ voice.userQuestion # <<>>
       \/ voice.geminiResponse # <<>>
       \/ voice.isPlaying
    /\ voice.clears < MaxClears
    /\ enterRequest("clearChat")
    /\ voice' = [voice EXCEPT !.playbackCancelledRef = TRUE,
                              !.clears = @ + 1]
    /\ runs' = [r \in VoiceRuns |->
                  [runs[r] EXCEPT !.cleared =
                      @ \/ (Speaking(runs[r]) /\ runs[r].sentences > 1)]]
    /\ UNCHANGED <<gvars, cvars, mvars, dvars, xrvars, tvars, evars>>

\* stopAudio has returned to clearChat, which resets the component's state
ClearChatReturns ==
    /\ stopReturns("clearChat")
    /\ voice' = [voice EXCEPT !.userQuestion = <<>>,
                              !.geminiResponse = <<>>,
                              !.isProcessing = FALSE,
                              !.isPlaying = FALSE]
    /\ UNCHANGED <<runs, gvars, cvars, mvars, dvars, xrvars, tvars, evars>>

VoiceNext ==
    \/ \E r \in VoiceRuns, question \in Questions : Ask(r, question)
    \/ \E r \in VoiceRuns, generated \in Generated :
           GenerateTextSettles(r, generated)
    \/ \E r \in VoiceRuns, fulfilled \in 0..2 : InitialSettled(r, fulfilled)
    \/ \E r \in VoiceRuns, ok \in BOOLEAN : AwaitedChunkSettles(r, ok)
    \/ \E r \in VoiceRuns : PlayAudioResolved(r)
    \/ \E r \in VoiceRuns : PlayAudioThrows(r)
    \/ ClearChat
    \/ ClearChatReturns
    \/ \E p \in VoiceRuns \cup AudioStoppers : StopAsync(p)
    \/ \E p \in VoiceRuns \cup AudioStoppers : UnloadAsync(p)
    \/ \E p \in VoiceRuns \cup AudioStoppers : ClearCurrent(p)
    \/ \E p \in VoiceRuns : CreateAsync(p)
    \/ \E p \in VoiceRuns : StoreCurrent(p)
    \/ \E p \in VoiceRuns : DidJustFinish(p)

----------------------------------------------------------------------------
(* The emergency screen (EmergencyRun).  analyze shows the vision analysis of  *)
(* a photo; runDispatcherAnalysis shows what the coordinator returns for one.  *)
(* A step runs a function up to its next await.                                *)

Flows == {"analyze", "dispatcher"}

\* a hint is its text and whether a catch block set it
NoHint == [failed |-> FALSE, text |-> "null"]
NoDispatcherResponse == "null"

\* what a successful analysis carries
ScreenResults ==
    {[detections |-> <<"Chest">>, overallInstruction |-> "Tilt the head back",
      primary |-> "Tilt the head back"],
     [detections |-> <<"Hand", "Chest">>, overallInstruction |-> "",
      primary |-> "Follow the instructions"]}

\* the detections and guidance on screen
Shown(sc) ==
    [detections |-> sc.detections,
     overallInstruction |-> sc.overallInstruction,
     dispatcherResponse |-> sc.dispatcherResponse]

IdleTry == [pc |-> "idle", before |-> Shown([detections |-> <<>>,
                                             overallInstruction |-> "",
                                             dispatcherResponse |-> NoDispatcherResponse]),
            undisturbed |-> TRUE, last |-> "none"]

EInit ==
    /\ screen = [loading |-> FALSE, hint |-> NoHint, detections |-> <<>>,
                 overallInstruction |-> "",
                 dispatcherResponse |-> NoDispatcherResponse]
    /\ tries = [f \in Flows |-> IdleTry]

\* flow f's attempt begins with screen sc showing; the other flow's attempt,
\* if one is in progress, sees the display change when sc' differs
beginTry(f, sc, after) ==
    [g \in Flows |->
        IF g = f
        THEN [pc |-> "capture", before |-> Shown(sc), undisturbed |-> TRUE,
              last |-> "none"]
        ELSE [tries[g] EXCEPT !.undisturbed = @ /\ Shown(after) = Shown(sc)]]

\* flow f's attempt ends as how; a success of f disturbs the other attempt
endTry(f, how) ==
    [g \in Flows |->
        IF g = f THEN [tries[g] EXCEPT !.pc = "idle", !.last = how]
        ELSE [tries[g] EXCEPT !.undisturbed = @ /\ how # "ok"]]

\* analyze up to takePictureAsync: setLoading(true), setHint(null),
\* setDetections([])
analyzeBegin(sc) ==
    [sc EXCEPT !.loading = TRUE, !.hint = NoHint, !.detections = <<>>]

\* analyze's catch and finally
analyzeFailed(sc, message) ==
    [sc EXCEPT !.hint = [failed |-> TRUE,
                        text |-> "Analysis failed: " \o message],
               !.loading = FALSE]

\* analyze after analyzeMedicalScene returned, and finally
analyzeDone(sc, result) ==
    [sc EXCEPT !.detections = result.detections,
               !.overallInstruction = result.overallInstruction,
               !.hint = [failed |-> FALSE, text |-> result.overallInstruction],
               !.loading = FALSE]

\* runDispatcherAnalysis's catch
dispatcherFailed(sc, message) ==
    [sc EXCEPT !.hint = [failed |-> TRUE,
                        text |-> "Dispatcher analysis failed: " \o message]]

\* runDispatcherAnalysis after processEmergencyImage returned
dispatcherDone(sc, result) ==
    [sc EXCEPT !.dispatcherResponse = result.primary,
               !.detections = result.detections,
               !.overallInstruction = result.overallInstruction,
               !.hint = [failed |-> FALSE, text |-> result.primary]]

AnalyzeBegin ==
    /\ tries["analyze"].pc = "idle"
    /\ ~screen.loading
    /\ screen' = analyzeBegin(screen)
    /\ tries' = beginTry("analyze", screen, analyzeBegin(screen))
    /\ UNCHANGED <<gvars, cvars, mvars, dvars, xrvars, tvars, avars, vvars>>

\* takePictureAsync settles: a photo, a photo without base64, or an error
AnalyzeCaptured(photo) ==
    /\ tries["analyze"].pc = "capture"
    /\ IF photo = "photo"
       THEN /\ tries' = [tries EXCEPT !["analyze"].pc = "remote"]
            /\ UNCHANGED screen
       ELSE /\ screen' = analyzeFailed(screen,
                             IF photo = "noBase64"
                             THEN "Could not capture image" ELSE "camera")
            /\ tries' = endTry("analyze", "failed")
    /\ UNCHANGED <<gvars, cvars, mvars, dvars, xrvars, tvars, avars, vvars>>

\* analyzeMedicalScene returns a result
AnalyzeReturns(result) ==
    /\ tries["analyze"].pc = "remote"
    /\ screen' = analyzeDone(screen, result)
    /\ tries' = endTry("analyze", "ok")
    /\ UNCHANGED <<gvars, cvars, mvars, dvars, xrvars, tvars, avars, vvars>>

\* analyzeMedicalScene throws
AnalyzeThrows ==
    /\ tries["analyze"].pc = "remote"
    /\ screen' = analyzeFailed(screen, "network")
    /\ tries' = endTry("analyze", "failed")
    /\ UNCHANGED <<gvars, cvars, mvars, dvars, xrvars, tvars, avars, vvars>>

DispatcherBegin ==
    /\ tries["dispatcher"].pc = "idle"
    /\ tries' = beginTry("dispatcher", screen, screen)
    /\ UNCHANGED <<screen, gvars, cvars, mvars, dvars, xrvars, tvars, avars,
                   vvars>>

\* takePictureAsync settles; without base64 the function returns silently
DispatcherCaptured(photo) ==
    /\ tries["dispatcher"].pc = "capture"
    /\ IF photo = "photo"
       THEN /\ tries' = [tries EXCEPT !["dispatcher"].pc = "remote"]
            /\ UNCHANGED screen
       ELSE IF photo = "noBase64"
       THEN /\ tries' = endTry("dispatcher", "skipped")
            /\ UNCHANGED screen
       ELSE /\ screen' = dispatcherFailed(screen, "camera")
            /\ tries' = endTry("dispatcher", "failed")
    /\ UNCHANGED <<gvars, cvars, mvars, dvars, xrvars, tvars, avars, vvars>>

\* processEmergencyImage returns a result
DispatcherReturns(result) ==
    /\ tries["dispatcher"].pc = "remote"
    /\ screen' = dispatcherDone(screen, result)
    /\ tries' = endTry("dispatcher", "ok")
    /\ UNCHANGED <<gvars, cvars, mvars, dvars, xrvars, tvars, avars, vvars>>

\* processEmergencyImage throws
DispatcherThrows ==
    /\ tries["dispatcher"].pc = "remote"
    /\ screen' = dispatcherFailed(screen, "Error: Processing already in progress")
    /\ tries' = endTry("dispatcher", "failed")
    /\ UNCHANGED <<gvars, cvars, mvars, dvars, xrvars, tvars, avars, vvars>>

Photos == {"photo", "noBase64", "throws"}

ScreenNext ==
    \/ AnalyzeBegin
    \/ \E photo \in Photos : AnalyzeCaptured(photo)
    \/ \E result \in ScreenResults : AnalyzeReturns(result)
    \/ AnalyzeThrows
    \/ DispatcherBegin
    \/ \E photo \in Photos : DispatcherCaptured(photo)
    \/ \E result \in ScreenResults : DispatcherReturns(result)
    \/ DispatcherThrows

----------------------------------------------------------------------------
(* The specifications *)

XIdle == DIdle /\ XrIdle /\ TIdle /\ AInit /\ VInit /\ EInit

Init == GIdle /\ CInit /\ MIdle /\ XIdle
Spec == Init /\ [][Next]_vars

GeminiInit == GInit /\ CInit /\ MIdle /\ XIdle
GeminiNext == Analyze
GeminiSpec == GeminiInit /\ [][GeminiNext]_vars

MetroInit == GIdle /\ CInit /\ MInit /\ XIdle
MetroSpec == MetroInit /\ [][MetroNext]_vars

DetectInit == GIdle /\ CInit /\ MIdle /\ DInit /\ XrIdle /\ TIdle /\ AInit /\ VInit /\ EInit
DetectSpec == DetectInit /\ [][DetectNext]_vars

ModelInit == GIdle /\ CInit /\ MIdle /\ XIdle
ModelNext == \E mode \in Modes : SelectModel(mode)
ModelSpec == ModelInit /\ [][ModelNext]_vars

XrInit == GIdle /\ CInit /\ MIdle /\ DIdle /\ XInit /\ TIdle /\ AInit /\ VInit /\ EInit
XrSpec == XrInit /\ [][XrNext]_vars

TimerInit == GIdle /\ CInit /\ MIdle /\ DIdle /\ XrIdle /\ TInit /\ AInit /\ VInit /\ EInit
TimerSpec == TimerInit /\ [][TimerNext]_vars

AudioInit == GIdle /\ CInit /\ MIdle /\ XIdle
AudioSpec == AudioInit /\ [][AudioNext]_vars

\* Every await of a request in progress settles and a playing sound reaches
\* its end: the steps of a caller after its request are taken when they stay
\* possible.  Requests themselves (the user's, the coordinator's) need not
\* come.
PlayerProceeds(p) ==
    \/ StopAsync(p) \/ UnloadAsync(p) \/ ClearCurrent(p)
    \/ CreateAsync(p) \/ CreateFails(p) \/ StoreCurrent(p) \/ DidJustFinish(p)
StopperProceeds(p) ==
    \/ StopAsync(p) \/ UnloadAsync(p) \/ ClearCurrent(p) \/ StopReturns(p)
AudioLiveSpec ==
    /\ AudioInit /\ [][AudioNext]_vars
    /\ \A p \in AudioPlayers : WF_vars(PlayerProceeds(p))
    /\ \A p \in AudioStoppers : WF_vars(StopperProceeds(p))

VoiceInit == GIdle /\ CInit /\ MIdle /\ XIdle
VoiceSpec == VoiceInit /\ [][VoiceNext]_vars

\* The two users of speech feedback, the coordinator and the voice assistant
\* answering questions one after the other.  They share no state; a behaviour
\* exercises one of them.
VoiceAtRest == VInit /\ AInit
CoordinatorAtRest == CInit
FeedbackInit == GIdle /\ CInit /\ MIdle /\ XIdle
FeedbackNext ==
    \/ VoiceAtRest /\ \E mode \in Modes : StartSession(mode)
    \/ VoiceAtRest /\ \E c \in Callers : ProcessBegin(c)
    \/ VoiceAtRest /\ \E c \in Callers, reply \in CoordReplies :
                          GeminiReturn(c, reply)
    \/ VoiceAtRest /\ \E c \in Callers, ttsOk \in BOOLEAN :
                          FeedbackDone(c, ttsOk)
    \/ VoiceAtRest /\ EndSession
    \/ CoordinatorAtRest /\ \E r \in VoiceRuns, question \in Questions :
                                Ask(r, question)
    \/ CoordinatorAtRest /\ \E r \in VoiceRuns, generated \in Generated :
                                GenerateTextSettles(r, generated)
    \/ CoordinatorAtRest /\ \E r \in VoiceRuns, fulfilled \in 0..2 :
                                InitialSettled(r, fulfilled)
    \/ CoordinatorAtRest /\ \E r \in VoiceRuns, ok \in BOOLEAN :
                                AwaitedChunkSettles(r, ok)
    \/ CoordinatorAtRest /\ \E r \in VoiceRuns : PlayAudioResolved(r)
    \/ CoordinatorAtRest /\ \E r \in VoiceRuns : PlayAudioThrows(r)
    \/ CoordinatorAtRest /\ \E p \in VoiceRuns : StopAsync(p)
    \/ CoordinatorAtRest /\ \E p \in VoiceRuns : CreateAsync(p)
    \/ CoordinatorAtRest /\ \E p \in VoiceRuns : StoreCurrent(p)
    \/ CoordinatorAtRest /\ \E p \in VoiceRuns : DidJustFinish(p)
FeedbackSpec == FeedbackInit /\ [][FeedbackNext]_vars

ScreenInit == GIdle /\ CInit /\ MIdle /\ XIdle
ScreenSpec == ScreenInit /\ [][ScreenNext]_vars

----------------------------------------------------------------------------
(* Claims about the coordinator, checked under Spec *)

InFlight == {c \in Callers : calls[c].pc # "idle"}

SessionEndedError == "Emergency session ended during processing"

\* The step just taken was a processEmergencyImage call reaching its guard.
CallMade == lastOp' \in {"reject", "begin"}

\* A call made while another is in flight, or with an empty session slot, is
\* rejected and issues no vision request; any other call issues exactly one.
RejectedBeforeRequest ==
    CallMade =>
        IF isProcessing \/ currentSession = NoSession
        THEN /\ lastOp' = "reject"
             /\ geminiRequests' = geminiRequests
             /\ calls' = calls
             /\ isProcessing' = isProcessing
        ELSE /\ lastOp' = "begin"
             /\ geminiRequests' = geminiRequests + 1

\* C1: at most one processEmergencyImage call is in flight at any time; a call
\* made while another is in flight, or when no session exists, is rejected at
\* the guard, before any vision-analysis request is issued.
C1_SingleFlight ==
    /\ [](Cardinality(InFlight) <= 1 /\ (InFlight # {} <=> isProcessing))
    /\ [][RejectedBeforeRequest]_vars

\* C1 witness: a call was just rejected while another caller's vision request
\* is pending.
C1_Witness ==
    /\ lastOp = "reject"
    /\ \E c, d \in Callers :
          c # d /\ outcome[c] = "rejected" /\ calls[d].pc = "gemini"

\* The slot holds a session that endEmergencySession marked inactive.
EndedInFlight == currentSession # NoSession /\ ~currentSession.isActive

\* C2: endEmergencySession during an in-flight call marks the same session
\* inactive at once and leaves the slot non-null; the slot stays non-null while
\* the call is in flight; and when the call completes or fails with that ended
\* session still in the slot, its finally block nulls the slot.
C2_DeferredTeardown ==
    [][ /\ (lastOp' = "end" /\ isProcessing) =>
              /\ currentSession' # NoSession
              /\ ~currentSession'.isActive
              /\ currentSession'.sessionId = currentSession.sessionId
        /\ (isProcessing /\ isProcessing' /\ EndedInFlight) =>
              currentSession' # NoSession
        /\ (isProcessing /\ ~isProcessing' /\ EndedInFlight) =>
              currentSession' = NoSession ]_vars

\* C2 witness: endEmergencySession has just run while a call is in flight.
C2_Witness ==
    /\ lastOp = "end"
    /\ isProcessing
    /\ EndedInFlight

\* C3: whenever a processEmergencyImage call is in flight the session slot is
\* non-null, under every interleaving of start, process and end.
C3_SlotHeldWhileProcessing ==
    isProcessing => currentSession # NoSession

\* C3 witness: a call is awaiting its feedback and the session in the slot was
\* ended meanwhile.
C3_Witness ==
    /\ EndedInFlight
    /\ \E c \in Callers : calls[c].pc = "feedback"

\* C4 as stated: when the vision request returns for a session that
\* endEmergencySession ended while the request was pending, the call aborts
\* with SessionEndedError, writes no lastAnalysis/lastGuidance and runs no
\* feedback.
C4_Original ==
    [][ \A c \in Callers :
          (calls[c].pc = "gemini" /\ calls'[c].pc # "gemini" /\ EndedInFlight) =>
              /\ calls'[c].pc = "idle"
              /\ outcome'[c] = SessionEndedError
              /\ ~currentSession'.hasAnalysis
              /\ ~currentSession'.hasGuidance
              /\ feedbackRuns' = feedbackRuns
              /\ hapticRuns' = hapticRuns ]_vars

\* C5 as stated: startEmergencySession with a session in the slot fails and
\* leaves that session in place.
C5_Original ==
    [][ (lastOp' = "start" /\ currentSession # NoSession) =>
            currentSession' = currentSession ]_vars

----------------------------------------------------------------------------
(* Claims about the vision analysis client, checked under GeminiSpec *)

\* The text holds no "{" that a "}" follows.
NoJsonObject(text) ==
    ~\E i, j \in 1..Len(text) : i < j /\ text[i] = "{" /\ text[j] = "}"

\* The text from its first "{" to its last "}".
BraceSpan(text) ==
    LET i == CHOOSE a \in 1..Len(text) :
                 text[a] = "{" /\ \A b \in 1..(a - 1) : text[b] # "{"
        j == CHOOSE a \in 1..Len(text) :
                 text[a] = "}" /\ \A b \in (a + 1)..Len(text) : text[b] # "}"
    IN SubSeq(text, i, j)

\* The failures the claim lists: transport failure, non-OK status, a body that
\* cannot be read, a missing reply text (whatever the finish reason), a reply
\* without a JSON object, a JSON object that does not parse.
FailedReply(reply) ==
    \/ reply.kind # "data"
    \/ reply.text = <<>>
    \/ NoJsonObject(reply.text)
    \/ ~JSONparse(BraceSpan(reply.text)).ok

FixedInstruction(mode) ==
    CASE mode = "airway" ->
            "Head-tilt/chin-lift: Place one hand on forehead, other under chin"
      [] mode = "cpr" ->
            "CPR: Place hands on center of chest, lower half of sternum"
      [] mode = "pulse" ->
            "Pulse Check: Try carotid (neck) or radial (wrist) pulse"
      [] OTHER -> "Seizure Safety: Protect head, support body, clear area"

FixedLabels(mode) ==
    CASE mode = "airway" -> <<"Forehead Hand", "Chin Hand">>
      [] mode = "cpr" -> <<"Hand Placement">>
      [] mode = "pulse" -> <<"Carotid Pulse", "Radial Pulse">>
      [] OTHER -> <<"Head Protection", "Body Support">>

\* C6: analyzeMedicalScene never throws; on every listed failure it returns
\* the mode's fixed fallback result, which for cpr has the fixed CPR
\* instruction and exactly one detection, labelled "Hand Placement".
C6_FallbackOnFailure ==
    gOut.settled =>
        /\ ~gOut.threw
        /\ FailedReply(gReply) =>
              /\ gOut.value.hasInstruction
              /\ gOut.value.overallInstruction = FixedInstruction(gMode)
              /\ gOut.value.hasDetections
              /\ [i \in 1..Len(gOut.value.detections) |->
                     gOut.value.detections[i].label] = FixedLabels(gMode)
              /\ gMode = "cpr" =>
                    /\ Len(gOut.value.detections) = 1
                    /\ gOut.value.detections[1].label = "Hand Placement"

\* C6 witness: the cpr analysis settled after a transport failure.
C6_Witness ==
    /\ gOut.settled
    /\ gMode = "cpr"
    /\ gReply.kind = "networkError"
    /\ gOut.value.overallInstruction =
          "CPR: Place hands on center of chest, lower half of sternum"

----------------------------------------------------------------------------
(* Claims about the metronomes, checked under MetroSpec *)

ActiveIds == {t.id : t \in metro.timers}

\* The start has completed: the press for the synchronous components, the
\* resumed start for CPRMetronomeCard.
StartCompleted ==
    \/ mLastOp = "resume"
    \/ mLastOp = "pressStart" /\ impl # "Card"

\* C7 as stated: once started, the first beat has fired and exactly one
\* interval of the selected period keeps firing; the n-th firing since start
\* sets beatCount to n and speaks "push" exactly when n is even.
C7_Original ==
    /\ StartCompleted =>
          /\ metro.running
          /\ metro.beatCount = 1
          /\ metro.fired = 1
          /\ ~metro.speaking
          /\ metro.timers =
                {[id |-> metro.tickRef, ms |-> periodMs(clampRate(metro.bpm))]}
    /\ mLastOp = "tick" =>
          /\ metro.beatCount = metro.fired
          /\ metro.speaking = (metro.fired % 2 = 0)
          /\ Cardinality(metro.timers) = 1

\* The metronome runs at the selected rate, or (CPRMetronomeCard) its restart
\* for the selected rate is awaiting keep-awake.
RunsAtSelectedBpm ==
    \/ /\ metro.running
       /\ metro.timers =
             {[id |-> metro.tickRef, ms |-> periodMs(clampRate(metro.bpm))]}
    \/ /\ impl = "Card"
       /\ metro.timers = {}
       /\ pendingStarts = <<metro.bpm>>

\* C8 as stated: a bpm change while running leaves the metronome running with
\* one interval whose period is that of the selected bpm, and every active
\* interval always has the period of the selected bpm.
C8_Original ==
    [][ /\ (mLastOp' = "changeBpm" /\ metro.running) => RunsAtSelectedBpm'
        /\ \A t \in metro'.timers : t.ms = periodMs(clampRate(metro'.bpm)) ]_vars

\* C9 as stated: after a stop that follows a stop, running is false, beatCount
\* is 0 and no interval is active.
C9_Original ==
    mLastOp = "stopAgain" =>
        /\ ~metro.running
        /\ metro.beatCount = 0
        /\ metro.tickRef = 0
        /\ metro.timers = {}

\* C10 as stated: after stop has returned and until start is invoked again, no
\* beat fires.
C10_Original ==
    quiet => mLastOp \notin {"tick", "resume"}

----------------------------------------------------------------------------
(* Claims about the detection services, checked under DetectSpec *)

\* squared distance from live position p to the call's target in pixel space
\* (hundredths of a pixel)
LiveDistanceSq(p) ==
    (p.x - dIn.target.x * dIn.imageWidth) * (p.x - dIn.target.x * dIn.imageWidth)
    + (p.y - dIn.target.y * dIn.imageHeight)
        * (p.y - dIn.target.y * dIn.imageHeight)

LivePresent == {p \in {dIn.positions.left, dIn.positions.right} : p.present}

\* some present live position lies within r100 hundredths of a pixel of the target
SomeWithin(r100) == \E p \in LivePresent : LiveDistanceSq(p) <= r100 * r100

ExpectedAccuracy(threshold100, outer100) ==
    IF LivePresent = {} THEN "incorrect"
    ELSE IF SomeWithin(threshold100) THEN "correct"
    ELSE IF SomeWithin(outer100) THEN "adjust"
    ELSE "incorrect"

\* C11: placement accuracy is 'incorrect' when neither live position is
\* present; otherwise, with d the minimum pixel distance from a present live
\* position to the target, 'correct' when d <= threshold (inclusive),
\* 'adjust' when threshold < d <= k*threshold, 'incorrect' above; threshold
\* 50 and k = 2 for hands (outer radius 100), threshold 30 and k = 1.5 for
\* fingers (outer radius 45).
C11_PlacementAccuracy ==
    (dOut.done /\ dIn.op = "accuracy") =>
        dOut.accuracy = IF dIn.kind = "hand"
                        THEN ExpectedAccuracy(5000, 10000)
                        ELSE ExpectedAccuracy(3000, 4500)

\* the boundary case: a finger exactly 30 pixels from the target pixel
\* (100,100) of a 200x200 image is classified 'correct'
C11_Witness ==
    /\ dOut.done /\ dIn.op = "accuracy" /\ dIn.kind = "finger"
    /\ dIn.target.x = 50 /\ dIn.target.y = 50
    /\ dIn.imageWidth = 200 /\ dIn.imageHeight = 200
    /\ dIn.positions.left = Pt(13000, 10000) /\ ~dIn.positions.right.present
    /\ dOut.accuracy = "correct"

\* detections of the call whose label contains one of the keywords
Labelled(ks) ==
    {i \in 1..Len(dIn.detections) :
        \E k \in ks : labelIncludes(dIn.detections[i].label, k)}

TargetIs(i) ==
    /\ dOut.target.present
    /\ dOut.target.x = dIn.detections[i].x
    /\ dOut.target.y = dIn.detections[i].y

TargetIsMean ==
    /\ dOut.target.present
    /\ dOut.target.x * Len(dIn.detections) = SumOf(dIn.detections, "x")
    /\ dOut.target.y * Len(dIn.detections) = SumOf(dIn.detections, "y")

\* the target the chest-center rule selects
ChestRule ==
    LET M == Labelled({kw.chest, kw.sternum, kw.hand})
    IN IF M # {} THEN TargetIs(FirstOf(M))
       ELSE IF dIn.detections # <<>> THEN TargetIsMean
       ELSE ~dOut.target.present

ClassifiedLyingDown == Labelled({kw.chest, kw.body, kw.person}) # {}

\* C13 as stated: the chest target is the (x,y) of the first detection whose
\* label contains "chest", "sternum" or "hand", else the mean of all
\* detections' (x,y) when there is one, else null.
C13_Original == (dOut.done /\ dIn.op = "chest") => ChestRule

\* C13 amended: when some label contains "chest", "body" or "person" the
\* chest target is the (x,y) of the first detection whose label contains
\* "chest", "sternum" or "hand", else the mean of all detections' (x,y);
\* when no label does, or the set is empty, the target is null.
C13_ChestTargetWhenLyingDown ==
    (dOut.done /\ dIn.op = "chest") =>
        IF ClassifiedLyingDown THEN ChestRule ELSE ~dOut.target.present

\* a later chest detection wins over an earlier unrelated one, verbatim
C13_Witness ==
    /\ dOut.done /\ dIn.op = "chest" /\ Len(dIn.detections) = 2
    /\ dIn.detections[1] = DDet(12, 24, 90, lbl.Person)
    /\ dIn.detections[2] = DDet(60, 72, 50, lbl.Chest)
    /\ dOut.target.present /\ dOut.target.x = 60 /\ dOut.target.y = 72

\* C14: calculateHandPlacementTarget returns null exactly when there is no
\* chest center (no detections) or no label contains "chest", "body" or
\* "person"; otherwise it returns the chest center with the result's
\* confidence (the largest detection confidence).
C14_NullIffNoCenterOrNotLying ==
    (dOut.done /\ dIn.op = "chest") =>
        /\ ~dOut.target.present <=>
               (dIn.detections = <<>> \/ ~ClassifiedLyingDown)
        /\ dOut.target.present =>
               /\ ChestRule
               /\ \E i \in 1..Len(dIn.detections) :
                      dOut.target.confidence = dIn.detections[i].confidence
               /\ \A i \in 1..Len(dIn.detections) :
                      dOut.target.confidence >= dIn.detections[i].confidence

\* a sternum and a hand are detected, yet the target is null: not lying down
C14_Witness ==
    /\ dOut.done /\ dIn.op = "chest" /\ Len(dIn.detections) = 2
    /\ dIn.detections[1].label = lbl.STERNUM
    /\ dIn.detections[2].label = lbl.Hand_Placement
    /\ ~dOut.target.present

SomeLabel(ks) == Labelled(ks) # {}

\* C15: determineRecommendedPosition returns the preferred site when some
\* label contains its name; otherwise "brachial" when some label contains
\* child/infant/small, otherwise "radial" when some label contains
\* sitting/conscious/awake, otherwise "carotid".
C15_RecommendedPosition ==
    (dOut.done /\ dIn.op = "site") =>
        dOut.recommendedPosition =
            IF dIn.preferredPosition # ""
               /\ SomeLabel({positionChars(dIn.preferredPosition)})
            THEN dIn.preferredPosition
            ELSE IF SomeLabel({kw.child, kw.infant, kw.small}) THEN "brachial"
            ELSE IF SomeLabel({kw.sitting, kw.conscious, kw.awake}) THEN "radial"
            ELSE "carotid"

\* an "Infant" label beats the preferred radial site, which no label names
C15_Witness ==
    /\ dOut.done /\ dIn.op = "site" /\ dIn.preferredPosition = "radial"
    /\ \E i \in 1..Len(dIn.detections) : dIn.detections[i].label = lbl.Infant
    /\ \E i \in 1..Len(dIn.detections) : dIn.detections[i].label = lbl.Sitting
    /\ ~SomeLabel({kw.radial})
    /\ dOut.recommendedPosition = "brachial"

HasKeyword(i, ks) == \E k \in ks : labelIncludes(dIn.detections[i].label, k)

\* detections satisfying the site's keyword and its vertical range
InSiteRange(position) ==
    {i \in 1..Len(dIn.detections) :
        CASE position = "carotid" ->
                 HasKeyword(i, {kw.carotid, kw.neck}) /\ dIn.detections[i].y < 50
          [] position = "brachial" ->
                 /\ HasKeyword(i, {kw.brachial, kw.upper_arm})
                 /\ dIn.detections[i].y > 30 /\ dIn.detections[i].y < 70
          [] position = "radial" ->
                 HasKeyword(i, {kw.radial, kw.wrist}) /\ dIn.detections[i].y > 60}

\* C16 as stated: the pulse point of a site comes only from a detection with
\* the site's keyword and vertical range (carotid/neck with y<0.5,
\* brachial/upper arm with 0.3<y<0.7, radial/wrist with y>0.6), and
\* calculatePulseTarget returns null when no such detection exists.
C16_Original ==
    (dOut.done /\ dIn.op = "pulse") =>
        /\ dOut.target.present =>
               \E i \in InSiteRange(dIn.position) : TargetIs(i)
        /\ InSiteRange(dIn.position) = {} => ~dOut.target.present

\* detections the site accepts: its named labels at any height, or a generic
\* label inside the site's vertical range
AcceptedFor(position) ==
    {i \in 1..Len(dIn.detections) :
        CASE position = "carotid" ->
                 \/ HasKeyword(i, {kw.carotid, kw.neck})
                 \/ (HasKeyword(i, {kw.pulse}) /\ dIn.detections[i].y < 50)
          [] position = "brachial" ->
                 \/ HasKeyword(i, {kw.brachial, kw.upper_arm})
                 \/ (HasKeyword(i, {kw.arm}) /\ dIn.detections[i].y > 30
                     /\ dIn.detections[i].y < 70)
          [] position = "radial" ->
                 \/ HasKeyword(i, {kw.radial, kw.wrist})
                 \/ (HasKeyword(i, {kw.pulse}) /\ dIn.detections[i].y > 60)}

\* C16 amended: the pulse point of a site is the first detection whose label
\* contains "carotid"/"neck" (carotid), "brachial"/"upper arm" (brachial) or
\* "radial"/"wrist" (radial) at any height, or whose label contains "pulse"
\* with y<0.5 (carotid), "arm" with 0.3<y<0.7 (brachial) or "pulse" with
\* y>0.6 (radial); calculatePulseTarget returns null when no such detection
\* exists for the requested site.
C16_PulsePointSelection ==
    (dOut.done /\ dIn.op = "pulse") =>
        IF AcceptedFor(dIn.position) = {} THEN ~dOut.target.present
        ELSE /\ TargetIs(FirstOf(AcceptedFor(dIn.position)))
             /\ dOut.target.position = dIn.position

\* a neck label low in the frame is selected for carotid, ahead of a generic
\* pulse label in the carotid range
C16_Witness ==
    /\ dOut.done /\ dIn.op = "pulse" /\ dIn.position = "carotid"
    /\ Len(dIn.detections) = 2
    /\ dIn.detections[1] = DDet(20, 70, 80, lbl.Neck)
    /\ dIn.detections[2] = DDet(20, 40, 80, lbl.Pulse_point)
    /\ dOut.target.present /\ dOut.target.y = 70

----------------------------------------------------------------------------
(* Claims about the XR modals' placement feedback, checked under XrSpec *)

\* C12 (as stated): the light-impact haptic for correct placement fires once
\* per transition into 'correct': an evaluation (a new detection, or a
\* pulse-site cycle) that yields 'correct' immediately after a previous
\* 'correct' does not fire the haptic again.
C12_Original ==
    [][(xrLog.accuracy = "correct" /\ xrLog'.op = "evaluate"
        /\ xrLog'.accuracy = "correct") => ~xrLog'.lightImpact]_vars

----------------------------------------------------------------------------
(* Claims about the pulse-check countdown, checked under TimerSpec *)

\* the remaining seconds the component shows
Remaining(t) ==
    IF t.component = "XRPulseModal" THEN t.timerSeconds ELSE t.countdown

\* C17 (as stated): once started, each one-second tick decrements the
\* remaining seconds by 1, from 10 down to 0 and never below 0; the
\* completion event (success haptic plus spoken prompt) fires on the tick
\* that reaches 0; light haptic ticks are delivered only while 5 or fewer
\* seconds remain.
C17_Original ==
    [][tLog'.op = "tick" =>
          /\ Remaining(timer') =
                 IF Remaining(timer) > 0 THEN Remaining(timer) - 1 ELSE 0
          /\ (tLog'.success /\ tLog'.prompt) <=>
                 (Remaining(timer) = 1 /\ Remaining(timer') = 0)
          /\ ~tLog'.prompt => ~tLog'.success
          /\ tLog'.light => Remaining(timer) <= 5]_vars

----------------------------------------------------------------------------
(* Claims about audio playback, checked under AudioSpec *)

\* C18 (as stated): at most one audio stream is playing at any time, under
\* any interleaving of AudioService.playAudio calls and of coordinator
\* feedback playback with voice-assistant playback.
C18_Original == Cardinality(audio.playing) <= 1

----------------------------------------------------------------------------
(* Claims about the voice assistant, checked under VoiceSpec *)

\* a chunk of run r begins playing in this step
ChunkBeginsPlaying(r) == players[r].pc = "create" /\ players'[r].pc = "store"

\* C19: once clearChat was invoked during a multi-chunk speakWithGemini
\* playback, no further chunk of that playback run begins playing, also when a
\* new speakWithGemini run starts afterwards.
C19_Original ==
    [][\A r \in VoiceRuns : runs[r].cleared => ~ChunkBeginsPlaying(r)]_vars

----------------------------------------------------------------------------
(* Claims about speech failures, checked under FeedbackSpec *)

\* executeFeedback settles for caller c in this step
FeedbackSettles(c) == calls[c].pc = "feedback" /\ calls'[c].pc = "idle"

\* askGemini returns for run r in this step
AskReturns(r) == runs[r].pc # "done" /\ runs'[r].pc = "done"

\* the texts askGemini can show: a model reply, trimmed, or a fallback text
ShownTexts ==
    {trim(g.text) : g \in {h \in Generated : ~h.threw}}
        \cup {assistantFallbackResponse(q) : q \in Questions}

\* the response on screen is the run's, unless another question was asked
ResponseShown(r) ==
    (\A o \in VoiceRuns \ {r} : runs[o].pc = "idle")
        => voice'.geminiResponse = runs'[r].reply

----------------------------------------------------------------------------
(* Claims about the emergency screen, checked under ScreenSpec *)

\* flow f's attempt fails in this step
AttemptFails(f) ==
    tries[f].pc # "idle" /\ tries'[f].pc = "idle" /\ tries'[f].last # "ok"

FailureMessage(hint) == hint.failed

\* C21: when an analysis attempt on the emergency screen fails, the detections
\* and guidance shown before the attempt are left unchanged and only a
\* failure message is set.
C21_Original ==
    [][\A f \in Flows :
          (AttemptFails(f) /\ tries[f].undisturbed) =>
              /\ Shown(screen') = tries[f].before
              /\ FailureMessage(screen'.hint)]_vars

----------------------------------------------------------------------------
(* Further claims about the coordinator, checked under Spec *)

\* caller c's call gets its analysis and goes on to executeFeedback
AnalysisArrives(c) == calls[c].pc = "gemini" /\ calls'[c].pc = "feedback"

\* caller c's call returns its result
ResultReturned(c) ==
    calls[c].pc # "idle" /\ calls'[c].pc = "idle" /\ outcome'[c] = "returned"

GenericSentence(mode) ==
    <<"Continue with ", mode,
      " procedure. Stay calm and follow proper technique.">>

\* C22: within one successful processEmergencyImage call the vision analysis
\* returns, the response is synthesized from it (primary = overallInstruction,
\* voice text = the same or, when it is empty, the generic sentence naming the
\* mode of the session as it stands then; urgency medium) and written to the
\* session with the analysis, feedback is executed, and only then the result
\* is returned.
C22_StepOrder ==
    [][\A c \in Callers :
          /\ (calls'[c].pc = "feedback" /\ calls[c].pc # "feedback") =>
                 AnalysisArrives(c)
          /\ AnalysisArrives(c) =>
                 LET a == calls'[c].analysis
                     g == currentSession'.lastGuidance
                 IN /\ currentSession'.hasAnalysis
                    /\ currentSession'.lastAnalysis = a
                    /\ currentSession'.hasGuidance
                    /\ g.primaryDefined = a.hasInstruction
                    /\ g.primary = a.overallInstruction
                    /\ g.speak = IF a.overallInstruction # ""
                                 THEN <<a.overallInstruction>>
                                 ELSE GenericSentence(currentSession.mode)
                    /\ g.urgency = "medium"
                    /\ feedbackRuns' = feedbackRuns + 1
                    /\ hapticRuns' = hapticRuns
                    /\ outcome'[c] = "inflight"
          /\ ResultReturned(c) =>
                 /\ calls[c].pc = "feedback"
                 /\ hapticRuns' = hapticRuns + 1]_vars

\* a call has returned after the generic sentence was written for an analysis
\* without an instruction
C22_Witness ==
    \E c \in Callers :
        /\ outcome[c] = "returned"
        /\ currentSession # NoSession
        /\ currentSession.hasGuidance
        /\ currentSession.lastAnalysis.overallInstruction = ""
        /\ currentSession.lastGuidance.speak =
               GenericSentence(currentSession.mode)
        /\ hapticRuns > 0

----------------------------------------------------------------------------
(* Further claims about placement accuracy, checked under DetectSpec *)

\* the order incorrect < adjust < correct
Rank(accuracy) ==
    CASE accuracy = "incorrect" -> 0
      [] accuracy = "adjust" -> 1
      [] accuracy = "correct" -> 2

\* the live positions that can take the place of the call's
OtherPositions ==
    {[left |-> l, right |-> r] :
        l \in LivePoints \cup {NoPoint}, r \in LivePoints \cup {NoPoint}}

\* the squared pixel distance from q's nearest present position to the
\* call's target
NearestSq(q) ==
    LET ds == {(p.x - dIn.target.x * dIn.imageWidth)
                   * (p.x - dIn.target.x * dIn.imageWidth)
               + (p.y - dIn.target.y * dIn.imageHeight)
                   * (p.y - dIn.target.y * dIn.imageHeight) :
                  p \in {p \in {q.left, q.right} : p.present}}
    IN CHOOSE d \in ds : \A e \in ds : d <= e

HasLive(q) == q.left.present \/ q.right.present

\* q's nearest live position is at least as close to the call's target as the
\* call's own nearest live position
Closer(q) ==
    /\ HasLive(q) /\ HasLive(dIn.positions)
    /\ NearestSq(q) <= NearestSq(dIn.positions)

\* the classification of q for the call's target, image size and threshold
ClassifiedAs(q) ==
    IF dIn.kind = "hand"
    THEN calculateHandPlacementAccuracy(dIn.target, q, dIn.imageWidth,
                                        dIn.imageHeight)
    ELSE calculateFingerPlacementAccuracy(dIn.target, q, dIn.imageWidth,
                                          dIn.imageHeight)

\* C23: for a fixed target, image size and threshold, live positions whose
\* nearest one is closer to the target are never classified worse in the
\* order incorrect < adjust < correct.
C23_MonotonicInDistance ==
    (dOut.done /\ dIn.op = "accuracy") =>
        \A q \in OtherPositions :
            Closer(q) => Rank(ClassifiedAs(q)) >= Rank(dOut.accuracy)

\* a finger call classified 'adjust' whose nearest position, moved closer,
\* is classified 'correct', while the other position stays far away
C23_Witness ==
    /\ dOut.done /\ dIn.op = "accuracy" /\ dIn.kind = "finger"
    /\ dOut.accuracy = "adjust"
    /\ \E q \in OtherPositions :
           /\ Closer(q)
           /\ q.left.present /\ q.right.present
           /\ NearestSq(q) < NearestSq(dIn.positions)
           /\ ClassifiedAs(q) = "correct"

----------------------------------------------------------------------------
(* A claim about model selection, checked under ModelSpec *)

\* C24: every getModelForMode call on airway, cpr, pulse or seizure returns a
\* non-empty model identifier, the lightweight one for airway and seizure and
\* the higher-accuracy one for cpr and pulse, whatever calls came before it.
C24_ModelSelection ==
    \A i \in 1..Len(modelCalls) :
        /\ modelCalls[i].modelName # ""
        /\ modelCalls[i].mode \in {"airway", "seizure"} =>
               modelCalls[i].modelName = "models/gemini-2.5-flash-8b"
        /\ modelCalls[i].mode \in {"cpr", "pulse"} =>
               modelCalls[i].modelName = "models/gemini-2.5-pro"

\* all four modes have been asked for, a higher-accuracy one right after a
\* lightweight one
C24_Witness ==
    /\ {modelCalls[i].mode : i \in 1..Len(modelCalls)} = Modes
    /\ \E i \in 2..Len(modelCalls) :
           /\ modelCalls[i - 1].mode = "airway"
           /\ modelCalls[i].mode = "pulse"
           /\ modelCalls[i].modelName = "models/gemini-2.5-pro"

----------------------------------------------------------------------------
(* A further claim about the XR modals, checked under XrSpec *)

\* the live hand or finger positions of the modal's last analysed photo
LivePositions ==
    IF xr.component = "XRCPRModal" THEN xr.poseResult.handPositions
    ELSE xr.pulseResult.fingerPositions

\* a live position lies at the same normalized point as the target
LiveOnTarget ==
    \E p \in {LivePositions.left, LivePositions.right} :
        p.present /\ p.x = xr.target.x /\ p.y = xr.target.y

\* C25 (as stated): in the CPR and pulse flows the live positions and the
\* target are compared in the same pixel space: for every image width and
\* height, an evaluation in which a live position lies at the same normalized
\* point as the target yields 'correct'.
C25_Original ==
    (xrLog.op = "evaluate" /\ xr.hasResult /\ xr.target.present /\ LiveOnTarget)
        => xrLog.accuracy = "correct"

----------------------------------------------------------------------------
(* A further claim about the metronomes, checked under MetroSpec *)

\* C26 (as stated): at most one interval timer of CPRMetronomeCard is active
\* at any time and the stored handle (tickRef) refers to it, under any
\* interleaving of start, stop and bpm changes.
C26_Original ==
    impl = "Card" =>
        /\ Cardinality(metro.timers) <= 1
        /\ \A t \in metro.timers : t.id = metro.tickRef

\* caller c's analysis arrives while the session slot holds another session
\* than the one its call began in
ArrivesInOtherSession(c) ==
    /\ AnalysisArrives(c)
    /\ currentSession # NoSession
    /\ currentSession.sessionId # calls[c].sid

\* C27 (as stated): a processEmergencyImage call writes lastAnalysis and
\* lastGuidance only to the session that was current when the call began: a
\* session started while the call is in flight is not written by it.
C27_Original ==
    [][\A c \in Callers :
          ArrivesInOtherSession(c) =>
              /\ currentSession'.hasAnalysis = currentSession.hasAnalysis
              /\ currentSession'.lastAnalysis = currentSession.lastAnalysis
              /\ currentSession'.hasGuidance = currentSession.hasGuidance
              /\ currentSession'.lastGuidance = currentSession.lastGuidance]_vars

----------------------------------------------------------------------------
(* A further claim about the vision analysis client, checked under GeminiSpec *)

\* C28 (as stated): every result returned by analyzeMedicalScene carries a
\* detections sequence and an overallInstruction, for every shape of remote
\* reply.
C28_Original ==
    (gOut.settled /\ ~gOut.threw) =>
        /\ gOut.value.hasDetections
        /\ gOut.value.hasInstruction

----------------------------------------------------------------------------
(* A further claim about the pulse-check countdown, checked under TimerSpec *)

\* the countdown runs startTimer began so far
RunsStarted == timer.nextInterval - 1

\* C29 (as stated): in XRPulseModal the completion event fires once per
\* countdown run and the interval is cancelled when 0 is reached, so at most
\* one countdown interval is active over any sequence of startTimer,
\* completion and stopTimer.
C29_Original ==
    timer.component = "XRPulseModal" =>
        /\ tLog.completions <= RunsStarted
        /\ timer.timerSeconds = 0 => timer.intervals = {}
        /\ Cardinality(timer.intervals) <= 1

----------------------------------------------------------------------------
(* A claim about termination of playback, checked under AudioLiveSpec *)

\* C30 (as stated): every AudioService.playAudio call eventually settles,
\* also when its sound is stopped through stopAudio before it finishes.
C30_Original ==
    \A p \in {"assistantA", "assistantB"} :
        (players[p].pc # "idle") ~> (players[p].pc = "idle")

====
